---- MODULE Spec2Model ----
(***************************************************************************)
(* Model of the orchestration core of the Just Travel backend:             *)
(*   - AntigravityAgentManager.run_workflow (just-travel-app/main.py)      *)
(*   - the background media task system (just-travel-app/tasks.py)         *)
(*   - the media status lookup (main.py, get_media_status)                 *)
(* Strings that the code inspects character by character (the user         *)
(* message) are sequences of one-character strings.  Optional scalars use  *)
(* the value None; optional records are sequences of length 0 or 1.        *)
(***************************************************************************)
EXTENDS Naturals, Integers, Sequences, FiniteSets, Bags, TLC

\* ------------------------------------------------------------------------
\* Bounds of the model
\* ------------------------------------------------------------------------
\* number of run_workflow requests served in one behaviour
MaxRequests == 2
\* number of task ids handed out in one behaviour
MaxTasks == 2

\* ------------------------------------------------------------------------
\* Program constants
\* ------------------------------------------------------------------------
\* @celery_app.task(bind=True, max_retries=3)
max_retries == 3

None == "None"

TaskIds == 1..MaxTasks

\* ------------------------------------------------------------------------
\* Python helpers
\* ------------------------------------------------------------------------
UpperAlpha == <<"A","B","C","D","E","F","G","H","I","J","K","L","M",
                "N","O","P","Q","R","S","T","U","V","W","X","Y","Z">>
LowerAlpha == <<"a","b","c","d","e","f","g","h","i","j","k","l","m",
                "n","o","p","q","r","s","t","u","v","w","x","y","z">>

\* str.lower() on one character
LowerChar(c) ==
    IF \E i \in 1..26 : UpperAlpha[i] = c
    THEN LowerAlpha[CHOOSE i \in 1..26 : UpperAlpha[i] = c]
    ELSE c

\* str.lower()
Lower(s) == [i \in 1..Len(s) |-> LowerChar(s[i])]

\* k in s   (substring test on strings)
Contains(s, k) ==
    \E i \in 1..(Len(s) + 1) :
        /\ i + Len(k) - 1 <= Len(s)
        /\ \A j \in 1..Len(k) : s[i + j - 1] = k[j]

\* bool(x) for the optional strings the orchestrator tests
Truthy(x) == x /= None /\ x /= ""

\* d.get(k, default)
Get(d, k, default) == IF k \in DOMAIN d THEN d[k] ELSE default

\* isinstance(x, Exception)
IsException(x) == "exception" \in DOMAIN x

\* "\n".join(lines); a text is the sequence of its pieces
RECURSIVE Join(_)
Join(lines) ==
    IF Len(lines) = 0 THEN <<>>
    ELSE IF Len(lines) = 1 THEN <<lines[1]>>
    ELSE <<lines[1], "\n">> \o Join(Tail(lines))

\* ------------------------------------------------------------------------
\* Inputs
\* ------------------------------------------------------------------------
\* "Hi", "goto" (no keyword), "Planet" (contains "plan" after lower())
Messages == { <<"H","i">>, <<"g","o","t","o">>, <<"P","l","a","n","e","t">> }

ProfileDestinations == {None, "Rome"}
ContextDestinations == {None, "Tokyo"}
FollowUps == { <<>>, <<"q1", "q2">> }
Extractions == { <<>>, <<"c1", "c2">> }

\* what profiler.async_process can return
ProfilerResults ==
    [ profile : [destination : ProfileDestinations],
      follow_up_questions : FollowUps,
      extracted_preferences : Extractions ]

Providers == {"pathfinder", "trend_spotter", "concierge"}

\* the dictionary each research provider returns, or the exception it raises
ProviderOutcomes(p) ==
    CASE p = "pathfinder"    -> { [results |-> <<"dest1">>],  [exception |-> "boom"] }
      [] p = "trend_spotter" -> { [trends  |-> <<"trend1">>], [exception |-> "boom"] }
      [] p = "concierge"     -> { [results |-> <<"hotel1">>], [exception |-> "boom"] }

\* a Python str, as opposed to a dict (a record without the field "str")
Str(s) == [str |-> s]
IsStr(v) == "str" \in DOMAIN v

\* ------------------------------------------------------------------------
\* agents/optimizer.py: OptimizerAgent.process and the dates of its day plans
\* ------------------------------------------------------------------------
\* a datetime: datetime(y, m, d, hh, mi, ss, us, tzinfo); tz is <<>> for a
\* naive datetime, else << [s |-> seconds, us |-> microseconds] >>, the UTC
\* offset of its timezone
DateTime(y, m, d, hh, mi, ss, us, tz) ==
    [y |-> y, m |-> m, d |-> d, hh |-> hh, mi |-> mi, ss |-> ss, us |-> us, tz |-> tz]

\* datetime(y, m, d): naive, at midnight
Date(y, m, d) == DateTime(y, m, d, 0, 0, 0, 0, <<>>)

\* datetime: _is_leap, _days_in_month and the table _DAYS_BEFORE_MONTH
IsLeap(y) == y % 4 = 0 /\ (y % 100 /= 0 \/ y % 400 = 0)
DaysInMonthTable == <<31, 28, 31, 30, 31, 30, 31, 31, 30, 31, 30, 31>>
DaysInMonth(y, m) == IF m = 2 /\ IsLeap(y) THEN 29 ELSE DaysInMonthTable[m]
DaysBeforeMonthTable == <<0, 31, 59, 90, 120, 151, 181, 212, 243, 273, 304, 334>>
DaysBeforeMonth(y, m) == DaysBeforeMonthTable[m] + (IF m > 2 /\ IsLeap(y) THEN 1 ELSE 0)
DaysBeforeYear(y) == (y - 1) * 365 + (y - 1) \div 4 - (y - 1) \div 100 + (y - 1) \div 400

\* datetime.max.toordinal(): 9999-12-31
MaxOrdinal == 3652059

\* datetime.toordinal: days since 0001-01-01, which is day 1
ToOrdinal(date) == DaysBeforeYear(date.y) + DaysBeforeMonth(date.y, date.m) + date.d

\* datetime.fromordinal (_ord2ymd): the 400-, 100-, 4- and 1-year cycles
FromOrdinal(ordinal) ==
    LET n0 == ordinal - 1
        n400 == n0 \div 146097
        r400 == n0 % 146097
        n100 == r400 \div 36524
        r100 == r400 % 36524
        n4 == r100 \div 1461
        r4 == r100 % 1461
        n1 == r4 \div 365
        n == r4 % 365
        year == n400 * 400 + 1 + n100 * 100 + n4 * 4 + n1
        leapyear == n1 = 3 /\ (n4 /= 24 \/ n100 = 3)
        month == (n + 50) \div 32
        before(mm) == DaysBeforeMonthTable[mm] + (IF mm > 2 /\ leapyear THEN 1 ELSE 0)
        inmonth(mm) == DaysInMonthTable[mm] + (IF mm = 2 /\ leapyear THEN 1 ELSE 0)
    IN  IF n1 = 4 \/ n100 = 4
        THEN Date(year - 1, 12, 31)
        ELSE IF before(month) > n
             THEN Date(year, month - 1, n - (before(month) - inmonth(month - 1)) + 1)
             ELSE Date(year, month, n - before(month) + 1)

\* datetime + timedelta(days=days): the time of day and the tzinfo are
\* kept; OverflowError outside 0001-01-01..9999-12-31
AddDays(date, days) ==
    IF ToOrdinal(date) + days \notin 1..MaxOrdinal
    THEN [exception |-> "OverflowError"]
    ELSE LET day == FromOrdinal(ToOrdinal(date) + days)
         IN  [date EXCEPT !.y = day.y, !.m = day.m, !.d = day.d]

\* the offset of a datetime from UTC
UtcOffset(date) == IF date.tz = <<>> THEN [s |-> 0, us |-> 0] ELSE date.tz[1]

\* b - a, as the days of the normalised timedelta (the floor of the
\* difference in days); TypeError between a naive and an aware datetime
Minus(b, a) ==
    IF (a.tz = <<>>) /= (b.tz = <<>>)
    THEN [exception |-> "TypeError"]
    ELSE LET SecondOfDay(x) == x.hh * 3600 + x.mi * 60 + x.ss - UtcOffset(x).s
             MicroSecond(x) == x.us - UtcOffset(x).us
             seconds == (SecondOfDay(b) - SecondOfDay(a))
                            + ((MicroSecond(b) - MicroSecond(a)) \div 1000000)
         IN  [days |-> (ToOrdinal(b) - ToOrdinal(a)) + (seconds \div 86400)]

\* the characters of a decimal digit, and of a number on `width` digits
DigitChars == <<"0", "1", "2", "3", "4", "5", "6", "7", "8", "9">>
IsDigit(c) == \E i \in 1..10 : DigitChars[i] = c
DigitValue(c) == (CHOOSE i \in 1..10 : DigitChars[i] = c) - 1
Pow10(k) == IF k = 0 THEN 1 ELSE IF k = 1 THEN 10 ELSE IF k = 2 THEN 100 ELSE 1000
Zfill(value, width) ==
    [i \in 1..width |-> DigitChars[((value \div Pow10(width - i)) % 10) + 1]]

\* str(value) of a non-negative integer
RECURSIVE Decimal(_)
Decimal(value) ==
    IF value < 10 THEN <<DigitChars[value + 1]>>
    ELSE Decimal(value \div 10) \o <<DigitChars[(value % 10) + 1]>>

\* date.strftime("%Y-%m-%d") with the C library of the Linux build: %Y is
\* the year without padding ("999-12-30"), %m and %d have two digits
Strftime(date) == Decimal(date.y) \o <<"-">> \o Zfill(date.m, 2) \o <<"-">> \o Zfill(date.d, 2)

\* the number written by the digits cs
RECURSIVE DigitsValue(_)
DigitsValue(cs) ==
    IF cs = <<>> THEN 0
    ELSE DigitsValue(SubSeq(cs, 1, Len(cs) - 1)) * 10 + DigitValue(cs[Len(cs)])

\* datetime.fromisoformat of CPython 3.11 (Modules/_datetimemodule.c), as
\* called at lines 238, 239 and 260. Positions count from 0 as in the C
\* code; the character past the end of the text is the terminator "".
Ch(text, i) == IF i >= 0 /\ i < Len(text) THEN text[i + 1] ELSE ""

\* parse_digits: are the n characters from p digits, and their value
HasDigits(text, p, n) == \A i \in p..(p + n - 1) : IsDigit(Ch(text, i))
DigitsAt(text, p, n) == DigitsValue(SubSeq(text, p + 1, p + n))

\* the first position from p on that holds no digit
DigitsEnd(text, p) ==
    CHOOSE i \in p..(Len(text) + p) :
        /\ ~IsDigit(Ch(text, i))
        /\ \A j \in p..(i - 1) : IsDigit(Ch(text, j))

InvalidIsoFormat == [exception |-> "ValueError"]

\* _find_isoformat_datetime_separator: where the date part ends (-1: no
\* valid place), decided by characters 4 and 5 and the length
_find_isoformat_datetime_separator(text) ==
    IF Len(text) = 7 THEN 7
    ELSE IF Ch(text, 4) = "-"
    THEN IF Ch(text, 5) = "W"
         THEN IF Len(text) > 8 /\ Ch(text, 8) = "-"
              THEN IF Len(text) = 9 THEN -1
                   ELSE IF Len(text) > 10 /\ IsDigit(Ch(text, 10)) THEN 8
                   ELSE 10
              ELSE 8
         ELSE 10
    ELSE IF Ch(text, 4) = "W"
    THEN LET idx == DigitsEnd(text, 7)
         IN  IF idx < 9 THEN idx
             ELSE IF idx % 2 = 0 THEN 7
             ELSE 8
    ELSE 8

\* iso_to_ymd: the day of an ISO year, week and weekday, if there is one in
\* 0001-01-01..9999-12-31
iso_to_ymd(iso_year, iso_week, iso_day) ==
    IF iso_year < 1 THEN InvalidIsoFormat
    ELSE LET first_day == DaysBeforeYear(iso_year) + 1
             first_weekday == (first_day + 6) % 7
             week1_monday == first_day - first_weekday
                                + (IF first_weekday > 3 THEN 7 ELSE 0)
             ordinal == week1_monday + (iso_week - 1) * 7 + iso_day - 1
         IN  IF iso_week <= 0 THEN InvalidIsoFormat
             ELSE IF iso_week > 53 THEN InvalidIsoFormat
             ELSE IF /\ iso_week = 53
                     /\ ~(first_weekday = 3 \/ (first_weekday = 2 /\ IsLeap(iso_year)))
                  THEN InvalidIsoFormat
             ELSE IF iso_day <= 0 \/ iso_day >= 8 THEN InvalidIsoFormat
             ELSE IF ordinal > MaxOrdinal THEN InvalidIsoFormat
             ELSE FromOrdinal(ordinal)

\* parse_isoformat_date: YYYY-MM-DD, YYYYMMDD, YYYY-Www[-d] or YYYYWww[d];
\* len is the separator's position. The numbers are validated later.
parse_isoformat_date(text, len) ==
    IF ~HasDigits(text, 0, 4) THEN InvalidIsoFormat
    ELSE LET year == DigitsAt(text, 0, 4)
             uses_separator == Ch(text, 4) = "-"
             p == IF uses_separator THEN 5 ELSE 4
             q == IF Ch(text, p) = "W" THEN p + 3 ELSE p + 2
             r == IF uses_separator THEN q + 1 ELSE q
         IN  IF Ch(text, p) = "W"
             THEN IF ~HasDigits(text, p + 1, 2) THEN InvalidIsoFormat
                  ELSE IF len >= 0 /\ q >= len
                       THEN iso_to_ymd(year, DigitsAt(text, p + 1, 2), 1)
                  ELSE IF uses_separator /\ Ch(text, q) /= "-" THEN InvalidIsoFormat
                  ELSE IF ~IsDigit(Ch(text, r)) THEN InvalidIsoFormat
                  ELSE iso_to_ymd(year, DigitsAt(text, p + 1, 2), DigitValue(Ch(text, r)))
             ELSE IF ~HasDigits(text, p, 2) THEN InvalidIsoFormat
             ELSE IF uses_separator /\ Ch(text, q) /= "-" THEN InvalidIsoFormat
             ELSE IF ~HasDigits(text, r, 2) THEN InvalidIsoFormat
             ELSE Date(year, DigitsAt(text, p, 2), DigitsAt(text, r, 2))

\* the scale of a fraction written with 1..6 digits
correction == <<100000, 10000, 1000, 100, 10, 1>>

\* the fractional part of parse_hh_mm_ss_ff from position p: at most six
\* digits count, further digits are skipped; rv is 1 when the text goes on
\* after them
ParseFraction(text, p, p_end, vals) ==
    LET to_parse == IF p_end - p >= 6 THEN 6 ELSE p_end - p
    IN  IF ~HasDigits(text, p, to_parse) THEN [rv |-> -3]
        ELSE [rv |-> IF Ch(text, DigitsEnd(text, p + to_parse)) /= "" THEN 1 ELSE 0,
              vals |-> vals,
              us |-> DigitsAt(text, p, to_parse) * correction[to_parse]]

\* the loop of parse_hh_mm_ss_ff over HH[:MM[:SS]] or HH[MM[SS]], round i
RECURSIVE ParseHhMmSs(_, _, _, _, _, _)
ParseHhMmSs(text, p, p_end, i, has_separator, vals) ==
    IF i = 3 THEN ParseFraction(text, p, p_end, vals)
    ELSE IF ~HasDigits(text, p, 2) THEN [rv |-> -3]
    ELSE LET c == Ch(text, p + 2)
             separated == IF i = 0 THEN c = ":" ELSE has_separator
             read == Append(vals, DigitsAt(text, p, 2))
         IN  IF p + 3 >= p_end
             THEN [rv |-> IF c /= "" THEN 1 ELSE 0, vals |-> read, us |-> 0]
             ELSE IF separated /\ c = ":"
                  THEN ParseHhMmSs(text, p + 3, p_end, i + 1, separated, read)
             ELSE IF c \in {".", ","} THEN ParseFraction(text, p + 3, p_end, read)
             ELSE IF ~separated
                  THEN ParseHhMmSs(text, p + 2, p_end, i + 1, separated, read)
             ELSE [rv |-> -4]

\* op(value), with value computed once
Once(op(_), value) == CHOOSE result \in { op(v) : v \in {value} } : TRUE

\* parse_hh_mm_ss_ff on text[p..p_end): rv < 0 on failure, else the hour,
\* minute, second and microsecond read, with rv = 1 when the text goes on
parse_hh_mm_ss_ff(text, p, p_end) ==
    Once(LAMBDA parsed :
            IF parsed.rv < 0 THEN parsed
            ELSE [rv |-> parsed.rv,
                  hh |-> IF Len(parsed.vals) >= 1 THEN parsed.vals[1] ELSE 0,
                  mi |-> IF Len(parsed.vals) >= 2 THEN parsed.vals[2] ELSE 0,
                  ss |-> IF Len(parsed.vals) >= 3 THEN parsed.vals[3] ELSE 0,
                  us |-> parsed.us],
         ParseHhMmSs(text, p, p_end, 0, TRUE, <<>>))

\* the scan of parse_isoformat_time for the first of Z, + and - from
\* position p on: its position, or the end of the text
TzinfoPos(text, p) ==
    LET tz_chars == { i \in p..(Len(text) - 1) : Ch(text, i) \in {"Z", "+", "-"} }
    IN  IF tz_chars /= {}
        THEN CHOOSE i \in tz_chars : \A j \in tz_chars : i <= j
        ELSE IF Len(text) > p THEN Len(text) ELSE p + 1

\* the offset part of parse_isoformat_time: Z, or a sign and an offset
\* written like a time that must end with the text
ParseOffset(text, tzinfo_pos, time) ==
    LET tzsign == IF Ch(text, tzinfo_pos) = "-" THEN -1 ELSE 1
        With(offset) == [hh |-> time.hh, mi |-> time.mi, ss |-> time.ss,
                         us |-> time.us, tz |-> offset]
    IN  IF tzinfo_pos >= Len(text)
        THEN IF time.rv = 1 THEN InvalidIsoFormat ELSE With(<<>>)
        ELSE IF Ch(text, tzinfo_pos) = "Z"
        THEN IF Ch(text, tzinfo_pos + 1) /= "" THEN InvalidIsoFormat
             ELSE With(<< [s |-> 0, us |-> 0] >>)
        ELSE Once(LAMBDA tz :
                     IF tz.rv /= 0 THEN InvalidIsoFormat
                     ELSE With(<< [s |-> tzsign * (tz.hh * 3600 + tz.mi * 60 + tz.ss),
                                   us |-> tzsign * tz.us] >>),
                  parse_hh_mm_ss_ff(text, tzinfo_pos + 1, Len(text)))

\* parse_isoformat_time on the text from position p: the time of day and
\* the offset (<<>> without one), or ValueError
parse_isoformat_time(text, p) ==
    Once(LAMBDA tzinfo_pos :
            Once(LAMBDA time :
                    IF time.rv < 0 THEN InvalidIsoFormat
                    ELSE ParseOffset(text, tzinfo_pos, time),
                 parse_hh_mm_ss_ff(text, p, tzinfo_pos)),
         TzinfoPos(text, p))

\* tzinfo_from_isoformat_results: an offset of zero seconds is timezone.utc,
\* whatever its microseconds
tzinfo_from_isoformat_results(tz) ==
    IF tz /= <<>> /\ tz[1].s = 0 THEN << [s |-> 0, us |-> 0] >> ELSE tz

\* the checks of the datetime and timezone constructors on what was read
NewDateTime(date, time) ==
    IF /\ date.y \in 1..9999
       /\ date.m \in 1..12
       /\ date.d >= 1 /\ date.d <= DaysInMonth(date.y, date.m)
       /\ time.hh \in 0..23 /\ time.mi \in 0..59 /\ time.ss \in 0..59
       /\ time.tz /= <<>> => (time.tz[1].s > -86400 /\ time.tz[1].s < 86400)
    THEN DateTime(date.y, date.m, date.d, time.hh, time.mi, time.ss, time.us,
                  tzinfo_from_isoformat_results(time.tz))
    ELSE InvalidIsoFormat

\* the time part of datetime.fromisoformat, after the date was read: one
\* character at the separator's position, whatever it is, then the time
ParseTimePart(text, separator_location, date) ==
    IF IsException(date) THEN date
    ELSE IF Len(text) > separator_location
    THEN Once(LAMBDA time : IF IsException(time) THEN time ELSE NewDateTime(date, time),
              parse_isoformat_time(text, separator_location + 1))
    ELSE NewDateTime(date, [hh |-> 0, mi |-> 0, ss |-> 0, us |-> 0, tz |-> <<>>])

\* datetime.fromisoformat(text): the datetime, or ValueError
FromIsoFormat(text) ==
    IF Len(text) < 7 THEN InvalidIsoFormat
    ELSE Once(LAMBDA separator_location :
                 Once(LAMBDA date : ParseTimePart(text, separator_location, date),
                      parse_isoformat_date(text, separator_location)),
              _find_isoformat_datetime_separator(text))

\* the queries the chatbot calls the optimizer with (the user's message,
\* chatbot.py line 41) and, for each, what the patterns of
\* _extract_num_days find in it (lines 220-232)
OptimizerQueries == {"generate itinerary", "make it a 2 day trip", "a week in rome"}
QueryDayCount(query) ==
    IF query = "make it a 2 day trip" THEN <<2>>
    ELSE IF query = "a week in rome" THEN <<7>>
    ELSE <<>>

\* context.get("dates", {}): start and end, each absent (<<>>) or a text
OptimizerDates ==
    { [start |-> <<>>,
       end |-> <<>>],
      [start |-> <<<<"2", "0", "2", "4", "-", "0", "2", "-", "2", "7">>>>,
       end |-> <<<<"2", "0", "2", "4", "-", "0", "3", "-", "0", "1">>>>],
      [start |-> <<<<"2", "0", "2", "5", "-", "1", "2", "-", "0", "1">>>>,
       end |-> <<<<"2", "0", "2", "6", "-", "0", "1", "-", "0", "2">>>>],
      [start |-> <<<<"2", "0", "2", "5", "-", "1", "2", "-", "3", "0">>>>,
       end |-> <<>>],
      [start |-> <<<<"2", "0", "2", "5", "-", "1", "2", "-", "3", "0">>>>,
       end |-> <<<<"2", "0", "2", "4", "-", "0", "3", "-", "0", "1">>>>],
      [start |-> <<<<"2", "0", "2", "5", "-", "0", "2", "-", "3", "0">>>>,
       end |-> <<<<"2", "0", "2", "4", "-", "0", "3", "-", "0", "1">>>>],
      [start |-> <<<<"s", "o", "o", "n">>>>,
       end |-> <<<<"l", "a", "t", "e", "r">>>>],
      [start |-> <<<<"2", "0", "2", "4", "-", "0", "2", "-", "2", "7">>>>,
       end |-> <<<<"l", "a", "t", "e", "r">>>>],
      [start |-> <<<<>>>>,
       end |-> <<<<"2", "0", "2", "4", "-", "0", "3", "-", "0", "1">>>>],
      [start |-> <<>>,
       end |-> <<<<"2", "0", "2", "4", "-", "0", "3", "-", "0", "1">>>>],
      [start |-> <<<<"2", "0", "2", "4", "-", "0", "2", "-", "2", "7", "T", "1", "0", ":", "0", "0", ":", "0", "0">>>>,
       end |-> <<<<"2", "0", "2", "4", "-", "0", "3", "-", "0", "1", "T", "0", "9", ":", "0", "0", ":", "0", "0">>>>],
      [start |-> <<<<"2", "0", "2", "4", "-", "0", "2", "-", "2", "7", "T", "1", "0", ":", "0", "0", ":", "0", "0", ".", "0", "0", "0", "Z">>>>,
       end |-> <<<<"2", "0", "2", "4", "-", "0", "3", "-", "0", "1">>>>],
      [start |-> <<<<"2", "0", "2", "4", "-", "0", "2", "-", "2", "7", "T", "1", "0", ":", "0", "0", ":", "0", "0", ".", "0", "0", "0", "Z">>>>,
       end |-> <<<<"2", "0", "2", "4", "-", "0", "3", "-", "0", "1", " ", "0", "9", ":", "0", "0", "+", "0", "1", ":", "0", "0">>>>],
      [start |-> <<<<"2", "0", "2", "4", "0", "2", "2", "7">>>>,
       end |-> <<<<"2", "0", "2", "4", "0", "3", "0", "1">>>>],
      [start |-> <<<<"2", "0", "2", "4", "-", "W", "0", "9", "-", "2">>>>,
       end |-> <<<<"2", "0", "2", "4", "-", "0", "3", "-", "0", "1">>>>],
      [start |-> <<<<"9", "9", "9", "9", "-", "1", "2", "-", "3", "0">>>>,
       end |-> <<>>] }

\* the moments datetime.now() may return
Clock ==
    { DateTime(2026, 10, 29, 14, 30, 0, 0, <<>>),
      DateTime(2027, 12, 31, 23, 59, 59, 999999, <<>>),
      Date(2028, 2, 28) }

\* dates.get(key): present and not the empty text
HasText(value) == value /= <<>> /\ value[1] /= <<>>

\* lines 236-242: the days from start to end, both included, or the
\* default after ValueError or TypeError
DaysOfDates(start, end) ==
    IF IsException(start) \/ IsException(end) THEN 3
    ELSE Once(LAMBDA delta : IF IsException(delta) THEN 3 ELSE delta.days + 1,
              Minus(end, start))

\* _extract_num_days (lines 206-245)
_extract_num_days(query, dates) ==
    IF QueryDayCount(query) /= <<>> THEN QueryDayCount(query)[1]
    ELSE IF HasText(dates.start) /\ HasText(dates.end)
         THEN Once(LAMBDA start :
                      Once(LAMBDA end : DaysOfDates(start, end),
                           IF IsException(start) THEN start
                           ELSE FromIsoFormat(dates.end[1])),
                   FromIsoFormat(dates.start[1]))
         ELSE 3

\* _extract_start_date (lines 247-265)
_extract_start_date(dates, now) ==
    IF HasText(dates.start)
    THEN Once(LAMBDA start : IF IsException(start) THEN AddDays(now, 1) ELSE start,
              FromIsoFormat(dates.start[1]))
    ELSE AddDays(now, 1)

\* variant: the first day is the day after the start date
CurrentDate_from_one(start_date, day_num) == AddDays(start_date, day_num)

\* line 301: current_date = start_date + timedelta(days=day_num - 1)
CurrentDate(start_date, day_num) == AddDays(start_date, day_num - 1)

\* line 301 raises OverflowError: a day falls after 9999-12-31
DayOverflows(num_days, start_date) ==
    \E day_num \in 1..num_days : IsException(CurrentDate(start_date, day_num))

\* _build_itinerary with _create_day_plan and DayPlan.to_dict: the date and
\* the number of each day plan
_build_itinerary(num_days, start_date) ==
    [day_num \in 1..num_days |->
        [date |-> Strftime(CurrentDate(start_date, day_num)), day_number |-> day_num]]

\* OptimizerAgent._generate_summary (optimizer.py, lines 589-600): a dict
Summary(days, activities) ==
    [total_days |-> days,
     total_activities |-> activities,
     estimated_total_cost |-> 100 * days,
     budget_level |-> "moderate",
     day_themes |-> [d \in 1..days |-> "Exploration Day"]]

\* datetime.now() at the optimizer call of a request
PlanClock == DateTime(2024, 2, 27, 22, 30, 0, 0, <<>>)

\* what optimizer.async_process returns (optimizer.py, lines 181-188) to a
\* caller whose context has no "dates" (main.py, lines 301-313): the days
\* of _build_itinerary from the default start date, the day after now
Plan(days, activities) ==
    [agent |-> "optimizer",
     itinerary |-> _build_itinerary(days, _extract_start_date([start |-> <<>>, end |-> <<>>],
                                                                PlanClock)),
     summary |-> Summary(days, activities),
     tips |-> <<"tip">>,
     total_days |-> days,
     status |-> "success"]

Plans == { Plan(3, 6), Plan(1, 2) }

\* what CreativeDirectorAgent.async_process can return / raise
WorkResults == { [trip_poster_url |-> "p1", video_url |-> "v1"],
                 [trip_poster_url |-> "p2", video_url |-> ""] }
WorkErrors == { "media error" }

Statuses == {"pending", "generating", "completed", "failed"}

\* ------------------------------------------------------------------------
\* State
\* ------------------------------------------------------------------------
VARIABLES
    \* deployment configuration (tasks.py, module level)
    USE_CELERY,       \* os.getenv("USE_CELERY") == "true"
    REDIS_URL,        \* os.getenv("REDIS_URL") as init_redis reads it
    redis_client,     \* the module global redis_client
    \* task store and background executor
    store,            \* Redis: task id (key "task:<id>") -> stored record
    ttl,              \* Redis: remaining time to live of each key, 0 = no key
    bg_pc,            \* position of the background execution of each task id
    bg_local,         \* the local `result` / caught exception of the execution
    retries,          \* Celery: self.request.retries of the task
    setex_log,        \* per task id, the records written by r.setex, in order
    work_log,         \* per task id, the outcomes of the media work, in order
    itineraries,      \* rows of the Itinerary table
    users,            \* ids of the rows of the User table
    user_ids,         \* the uuid4 values User rows were created with so far
    saving,           \* bag of save requests between get_current_user and the insert
    deleting,         \* bag of delete_account requests between get_current_user and the end of commit
    save_log,         \* per saved row, who asked for it and with which media_task_id
    last_poll,        \* the latest status lookup: task id, answer, parity
    \* one run_workflow invocation
    req_no,           \* number of requests started so far
    pc,               \* position of the current request in run_workflow
    user_message,     \* argument user_message
    current_context,  \* argument current_context (mutated by run_workflow)
    destination,      \* the local `destination` (line 292)
    gather_results,   \* state / result of each research coroutine
    synthesis_context,\* the dictionary handed to the optimizer
    response,         \* the AgentResponse returned
    profile_result,   \* what the profiler returned, kept when the gate is false
    phase_log,        \* the calls run_workflow has made so far, in order
    next_uuid,        \* source of uuid.uuid4()
    \* one TrendSpotterAgent.async_process invocation (backend/agents)
    ts_pc,            \* position of the invocation
    ts_client,        \* self.client of the agent (None without an API key)
    original_location,\* the local `original_location`
    current_location, \* the local `current_location`
    attempt,          \* the local `attempt`
    final_trends,     \* the local `final_trends`
    raw_count,        \* the local `raw_count`
    ts_result,        \* the dictionary async_process returned
    fetch_log,        \* the calls of _fetch_social_data: query and what came back
    llm_log,          \* the calls of generate_response: purpose, attempt, outcome
    \* the ProfilerAgent instance (backend/agents) and the requests it serves
    prof_client,      \* self.client of the agent; "unborn" before __init__
    current_profile,  \* self.current_profile
    prof_pc,          \* per caller, position of its async_process call
    prof_call,        \* per caller, the arguments and model answer of its call
    prof_result,      \* per caller, what its call returned or raised
    prof_started,     \* number of async_process calls started so far
    own,              \* per caller, the field values its own calls supplied
    \* chat_endpoint (main.py) and the requests it serves, one at a time
    chat_pc,          \* position of the current request in chat_endpoint
    chat_req,         \* user, chat_req.message and chat_req.preferences
    itinerary_cache,  \* the module global itinerary_cache: user -> itinerary
    http,             \* what the endpoint answered: a response or an HTTP error
    route,            \* how the current request was routed, and on what grounds
    logged,           \* the exception text logged by the except clause
    chat_no,          \* number of chat requests received so far
    \* OptimizerAgent.process (agents/optimizer.py) and what its caller returns
    opt_pc,           \* position of the current optimizer call
    opt_args,         \* its query, context["dates"] and the day datetime.now() gives
    opt_locals,       \* num_days and start_date of process
    opt_plan,         \* the dictionary process returned
    opt_data,         \* the data the caller of the optimizer hands on
    opt_no,           \* number of optimizer calls so far
    \* BaseAgent.generate_response (agents/base.py), one call at a time
    gen_pc,           \* position of the current generate_response call
    gen_client,       \* self.client of the calling agent
    gen_api,          \* what the model API answered to the invocations of this call
    gen_retries,      \* the local retries
    gen_result,       \* what the call returned or raised
    gen_no,           \* number of generate_response calls so far
    \* CreativeTools.generate_video (tools/creative_tools.py), per media task
    video,            \* position, operation.done, time since poll_start, result
    \* RequestQueue (tools/amadeus_tools.py) and the callers of wait_turn
    clock,            \* the time datetime.now() reads, in ticks
    requests,         \* request_queue.requests: the recorded timestamps
    lock,             \* request_queue.lock: its holder, then the waiters in order
    rq_pc,            \* per caller, its position in wait_turn
    rq_now,           \* per caller, its local now
    admitted          \* the times at which callers went on after wait_turn

configVars == <<USE_CELERY, REDIS_URL, redis_client>>
taskVars == <<store, ttl, bg_pc, bg_local, retries, setex_log, work_log>>
dbVars == <<itineraries, users, user_ids, saving, deleting, save_log>>
wfVars == <<req_no, pc, user_message, current_context, destination, gather_results,
            synthesis_context, response, profile_result, phase_log>>
pollVars == <<last_poll>>
trendVars == <<ts_pc, ts_client, original_location, current_location, attempt,
               final_trends, raw_count, ts_result, fetch_log, llm_log>>
profVars == <<prof_client, current_profile, prof_pc, prof_call, prof_result,
              prof_started, own>>
chatVars == <<chat_pc, chat_req, itinerary_cache, http, route, logged, chat_no>>
optVars == <<opt_pc, opt_args, opt_locals, opt_plan, opt_data, opt_no>>
genVars == <<gen_pc, gen_client, gen_api, gen_retries, gen_result, gen_no>>
videoVars == <<video>>
rqVars == <<clock, requests, lock, rq_pc, rq_now, admitted>>
extVars == <<profVars, chatVars, optVars, genVars, videoVars, rqVars>>
sideVars == <<pollVars, trendVars, extVars>>
vars == <<configVars, taskVars, dbVars, wfVars, next_uuid, sideVars>>

NoLocal == [none |-> TRUE]
NoPoll == [polled |-> FALSE]
NotStarted == [state |-> "notstarted"]
Running == [state |-> "running"]
IsDone(x) == "state" \notin DOMAIN x

\* ------------------------------------------------------------------------
\* tasks.py: Redis client and task storage
\* ------------------------------------------------------------------------
\* init_redis: the client is created only when REDIS_URL is set
init_redis(client) ==
    IF ~Truthy(REDIS_URL) THEN client
    ELSE IF client = None THEN "client" ELSE client

\* get_redis: the client, initialised on demand; None when REDIS_URL is unset
get_redis == IF redis_client = None THEN init_redis(redis_client) ELSE redis_client

\* `result or {}`
ResultOrEmpty(result) == IF result = NoLocal \/ DOMAIN result = {} THEN <<>> ELSE result

\* variant: the result payload is not stored
TaskData_noresult(status, result) == [status |-> status, result |-> <<>>]

\* the record save_task_status serialises
TaskData(status, result) == [status |-> status, result |-> ResultOrEmpty(result)]

\* the time to live r.setex gives the key, in seconds
task_ttl == 3600

\* variant: the write patches the status field of an existing record and
\* leaves its other fields (HSET of one field instead of SETEX)
Setex_partial(s, t, value) ==
    [k \in (DOMAIN s) \cup {t} |->
        IF k /= t THEN s[k]
        ELSE IF t \in DOMAIN s THEN [s[t] EXCEPT !.status = value.status]
        ELSE value]

\* r.setex(key, 3600, value): a full replace of the record under the key
Setex(s, t, value) == [k \in (DOMAIN s) \cup {t} |-> IF k = t THEN value ELSE s[k]]

\* save_task_status raises (AttributeError on None) when there is no client
SaveRaises == get_redis = None

\* save_task_status(task_id, status, result), when it does not raise
save_task_status(t, status, result) ==
    /\ redis_client' = get_redis
    /\ store' = Setex(store, t, TaskData(status, result))
    /\ ttl' = [ttl EXCEPT ![t] = task_ttl]
    /\ setex_log' = [setex_log EXCEPT ![t] = Append(@, TaskData(status, result))]

\* get_task_status(task_id): the record, or no value
get_task_status(t) == IF t \in DOMAIN store THEN <<store[t]>> ELSE <<>>

\* main.py get_media_status: the body of the HTTP answer
get_media_status(t) ==
    LET task_data == get_task_status(t) IN
    IF task_data = <<>> THEN [status |-> "not_found"]
    ELSE LET status == task_data[1].status
             result == task_data[1].result
         IN IF status = "completed"
            THEN [status |-> "completed",
                  poster_url |-> Get(result, "poster_url", None),
                  video_url |-> Get(result, "video_url", None)]
            ELSE IF status = "failed"
            THEN [status |-> "failed", error |-> Get(result, "error", "Unknown error")]
            ELSE [status |-> status]

\* Redis drops a key whose time to live (3600 s) has elapsed
Expire(t) ==
    /\ t \in DOMAIN store
    /\ store' = [k \in (DOMAIN store) \ {t} |-> store[k]]
    /\ ttl' = [ttl EXCEPT ![t] = 0]
    /\ UNCHANGED <<sideVars, configVars, bg_pc, bg_local, retries, setex_log, work_log,
                   dbVars, wfVars, next_uuid>>

\* ------------------------------------------------------------------------
\* Itinerary table (database.py) as the task system uses it
\* ------------------------------------------------------------------------
\* number of rows saved in one behaviour
MaxRows == 1
\* number of delete_account requests in flight at a time
MaxDeletes == 1

\* media_task_id of a row saved without a task
NoTask == 0

\* ids of the authenticated users (User.id)
Users == {"u1"}

\* variant: the table with the media columns
ItineraryColumns_media ==
    {"id", "user_id", "destination", "summary", "data", "creative_assets", "created_at",
     "media_task_id", "media_status", "poster_url", "video_url"}

\* database.py, lines 37-53: the columns of the Itinerary table
ItineraryColumns ==
    {"id", "user_id", "destination", "summary", "data", "creative_assets", "created_at"}

\* Itinerary(**kwargs): keyword arguments that name no column of the table
\* class are dropped
TableRow(kwargs) == [k \in (DOMAIN kwargs) \cap ItineraryColumns |-> kwargs[k]]

\* get_current_user (main.py, lines 175-203): the user the token names is
\* in the User table; otherwise the request ends with 401
get_current_user(user_id) == user_id \in users

\* register (main.py, lines 354-381) and the creating branch of google_auth
\* (lines 485-495): a User row with a fresh uuid4 id. The step is the
\* commit; a request for an e-mail that is taken changes nothing.
register(user_id) ==
    /\ user_id \notin user_ids
    /\ users' = users \cup {user_id}
    /\ user_ids' = user_ids \cup {user_id}
    /\ UNCHANGED <<itineraries, saving, deleting, save_log>>
    /\ UNCHANGED <<sideVars, configVars, taskVars, wfVars, next_uuid>>

\* the id SQLite gives the next row of an INTEGER PRIMARY KEY column
NextRowId ==
    IF itineraries = <<>> THEN 1
    ELSE 1 + (CHOOSE m \in { itineraries[i].id : i \in 1..Len(itineraries) } :
                 \A i \in 1..Len(itineraries) : itineraries[i].id <= m)

\* save_itinerary, the dependency (lines 664-668): the user is looked up
\* and the handler's body is yet to run
SaveAuthenticated(user_id, media_task_id) ==
    /\ get_current_user(user_id)
    /\ Len(itineraries) + BagCardinality(saving) < MaxRows
    /\ saving' = saving (+) SetToBag({[user_id |-> user_id, media_task_id |-> media_task_id]})
    /\ UNCHANGED <<itineraries, users, user_ids, deleting, save_log>>
    /\ UNCHANGED <<sideVars, configVars, taskVars, wfVars, next_uuid>>

\* save_itinerary, the body (lines 670-689): insert a row built from the
\* request for the user looked up before, whether or not that user is
\* still in the User table (the engine of database.py, lines 58-62, does
\* not turn on SQLite's foreign keys); created_at is left out of the row
SaveInsert(save_req) ==
    /\ BagIn(save_req, saving)
    /\ saving' = saving (-) SetToBag({save_req})
    /\ itineraries' = Append(itineraries,
           TableRow([id |-> NextRowId,
                     user_id |-> save_req.user_id,
                     destination |-> "Rome",
                     summary |-> "s",
                     data |-> <<>>,
                     creative_assets |-> <<>>,
                     media_task_id |-> save_req.media_task_id,
                     media_status |-> IF save_req.media_task_id /= NoTask
                                      THEN "generating" ELSE "pending"]))
    /\ save_log' = Append(save_log, save_req)
    /\ UNCHANGED <<users, user_ids, deleting>>
    /\ UNCHANGED <<sideVars, configVars, taskVars, wfVars, next_uuid>>

\* main.py save_itinerary (lines 664-689)
save_itinerary ==
    \/ \E user_id \in Users, media_task_id \in {NoTask} \cup TaskIds :
          SaveAuthenticated(user_id, media_task_id)
    \/ \E save_req \in BagToSet(saving) : SaveInsert(save_req)

\* the delete_account requests of a user that are in flight
DeleteOf(user_id) == { d \in BagToSet(deleting) : d.user_id = user_id }

\* delete_account, the dependency (lines 519-524): the user is looked up
DeleteAuthenticated(user_id) ==
    /\ get_current_user(user_id)
    /\ BagCardinality(deleting) < MaxDeletes
    /\ deleting' = deleting (+) SetToBag({[user_id |-> user_id, rows |-> <<>>,
                                                 loaded |-> <<>>]})
    /\ UNCHANGED <<itineraries, users, user_ids, saving, save_log>>
    /\ UNCHANGED <<sideVars, configVars, taskVars, wfVars, next_uuid>>

\* delete_account, lines 527-528: the user's rows are selected
DeleteSelect(user_id) ==
    /\ \E d \in DeleteOf(user_id) :
          /\ d.rows = <<>>
          /\ deleting' = (deleting (-) SetToBag({d})) (+) SetToBag(
                 {[d EXCEPT !.rows =
                     << { itineraries[i].id : i \in { j \in 1..Len(itineraries) :
                                                     itineraries[j].user_id = user_id } } >>]})
    /\ UNCHANGED <<itineraries, users, user_ids, saving, save_log>>
    /\ UNCHANGED <<sideVars, configVars, taskVars, wfVars, next_uuid>>

\* the ids of the rows of a user that are in the table
RowIdsOf(user_id) ==
    { itineraries[i].id : i \in { j \in 1..Len(itineraries) :
                                    itineraries[j].user_id = user_id } }

\* delete_account, line 533, the first statement of the flush inside
\* `await session.commit()`: to delete the user the session loads
\* User.itineraries (database.py, line 34), the rows of the user that are
\* in the table now; no transaction is open when the load has returned,
\* so other requests commit before the flush goes on
DeleteFlushLoad(user_id) ==
    /\ \E d \in DeleteOf(user_id) :
          /\ d.rows /= <<>>
          /\ d.loaded = <<>>
          /\ deleting' = (deleting (-) SetToBag({d})) (+) SetToBag(
                 {[d EXCEPT !.loaded = << RowIdsOf(user_id) >>]})
    /\ UNCHANGED <<itineraries, users, user_ids, saving, save_log>>
    /\ UNCHANGED <<sideVars, configVars, taskVars, wfVars, next_uuid>>

\* the positions of the rows that stay when the rows with these ids go
Kept(ids) == { i \in 1..Len(itineraries) : itineraries[i].id \notin ids }

\* the elements of seq at the positions in keep, in order
RECURSIVE Restrict(_, _)
Restrict(seq, keep) ==
    IF seq = <<>> THEN <<>>
    ELSE LET head == Restrict(SubSeq(seq, 1, Len(seq) - 1), keep)
         IN  IF Len(seq) \in keep THEN Append(head, seq[Len(seq)]) ELSE head

\* the flush of line 533 raises: the session sets user_id to NULL in
\* every row it loaded from User.itineraries that it has not been told to
\* delete, i.e. a row inserted between the select of lines 527-528 and
\* the load; the column is NOT NULL (database.py, line 42), the UPDATE
\* fails with IntegrityError (or finds its row gone)
CommitRaises(loaded, selected) == loaded \ selected /= {}

\* delete_account, lines 533-536, the rest of the commit: the statements
\* of the flush and the COMMIT, in one transaction. The selected rows and
\* the user are deleted by primary key; a row or a user that is gone by
\* then is passed over, and a row inserted after the load stays. When the
\* flush raises, the transaction is rolled back, the user and every row
\* stay and the request is answered with status 500.
DeleteCommit(user_id) ==
    /\ \E d \in DeleteOf(user_id) :
          /\ d.loaded /= <<>>
          /\ deleting' = deleting (-) SetToBag({d})
          /\ IF CommitRaises(d.loaded[1], d.rows[1])
             THEN UNCHANGED <<itineraries, save_log, users>>
             ELSE /\ itineraries' = Restrict(itineraries, Kept(d.rows[1]))
                  /\ save_log' = Restrict(save_log, Kept(d.rows[1]))
                  /\ users' = users \ {user_id}
    /\ UNCHANGED <<user_ids, saving>>
    /\ UNCHANGED <<sideVars, configVars, taskVars, wfVars, next_uuid>>

\* main.py delete_account (lines 519-536)
delete_account ==
    \E user_id \in Users :
        \/ DeleteAuthenticated(user_id)
        \/ DeleteSelect(user_id)
        \/ DeleteFlushLoad(user_id)
        \/ DeleteCommit(user_id)

\* `Itinerary.media_task_id` (tasks.py, lines 106 and 181) raises
\* AttributeError when the table class has no such column
SelectRaises == "media_task_id" \notin ItineraryColumns

\* rows selected by `Itinerary.media_task_id == task_id`
RowsOfTask(t) ==
    { i \in 1..Len(itineraries) :
        "media_task_id" \in DOMAIN itineraries[i] /\ itineraries[i].media_task_id = t }

\* rows whose save request carried media_task_id t
SavedFor(t) == { i \in 1..Len(save_log) : save_log[i].media_task_id = t }

\* `a or b` on strings
OrElse(a, b) == IF Truthy(a) THEN a ELSE b

\* the row after the task's update (tasks.py, lines 110-121)
UpdatedRow(row, result) ==
    LET patch ==
          [poster_url |-> OrElse(Get(result, "trip_poster_url", None),
                                 Get(result, "poster_url", "")),
           video_url |-> Get(result, "video_url", ""),
           media_status |-> "completed",
           creative_assets |->
               << [trip_poster_url |-> Get(result, "trip_poster_url", ""),
                   daily_posters |-> Get(result, "daily_posters", <<>>),
                   video_url |-> Get(result, "video_url", "")] >>]
    IN [k \in (DOMAIN row) \cup (DOMAIN patch) |->
           IF k \in DOMAIN patch THEN patch[k] ELSE row[k]]

\* variant of the row update: the first row, whichever task it names
UpdateDatabase_first(t, result, db_raises) ==
    /\ IF db_raises \/ Len(itineraries) = 0
       THEN itineraries' = itineraries
       ELSE itineraries' = [itineraries EXCEPT ![1] =
                UpdatedRow(@, result)]
    /\ UNCHANGED <<users, user_ids, saving, deleting, save_log>>

\* the inner try block: look the itinerary up and patch it; a database
\* error, or more than one matching row (scalar_one_or_none), is swallowed
UpdateDatabase(t, result, db_raises) ==
    /\ IF db_raises \/ SelectRaises \/ Cardinality(RowsOfTask(t)) /= 1
       THEN itineraries' = itineraries
       ELSE LET i == CHOOSE j \in RowsOfTask(t) : TRUE
            IN itineraries' = [itineraries EXCEPT ![i] = UpdatedRow(@, result)]
    /\ UNCHANGED <<users, user_ids, saving, deleting, save_log>>

\* ------------------------------------------------------------------------
\* tasks.py, asyncio mode: generate_media_background / start_background_task
\* ------------------------------------------------------------------------
\* variant: the media work is awaited inside the call instead of scheduled
start_background_task_inline(t) ==
    /\ bg_pc' = [bg_pc EXCEPT ![t] = "done"]
    /\ \E result \in WorkResults :
         /\ store' = Setex(store, t, TaskData("completed", result))
         /\ ttl' = [ttl EXCEPT ![t] = task_ttl]
         /\ bg_local' = [bg_local EXCEPT ![t] = result]
         /\ work_log' = [work_log EXCEPT ![t] = Append(@, result)]
         /\ setex_log' = [setex_log EXCEPT ![t] =
                @ \o <<TaskData("generating", NoLocal), TaskData("completed", result)>>]
    /\ UNCHANGED retries

\* asyncio.create_task(generate_media_background(task_id, plan_data)), or
\* generate_media_task.apply_async(args, task_id=task_id): no record written
start_background_task(t) ==
    /\ bg_pc' = [bg_pc EXCEPT ![t] = "scheduled"]
    /\ UNCHANGED <<store, ttl, bg_local, retries, setex_log, work_log>>

\* variant: the work is started without the "generating" write
AioStart_nowrite(t) ==
    /\ ~USE_CELERY
    /\ bg_pc[t] = "scheduled"
    /\ bg_pc' = [bg_pc EXCEPT ![t] = "work"]
    /\ UNCHANGED <<sideVars, configVars, store, ttl, setex_log, bg_local, retries, work_log,
                   dbVars, wfVars, next_uuid>>

\* lines 94-99: write "generating", then call the creative director; with
\* no Redis client both this write and the one in the handler raise
AioStart(t) ==
    /\ ~USE_CELERY
    /\ bg_pc[t] = "scheduled"
    /\ IF SaveRaises
       THEN /\ bg_pc' = [bg_pc EXCEPT ![t] = "crashed"]
            /\ UNCHANGED <<redis_client, store, ttl, setex_log>>
       ELSE /\ save_task_status(t, "generating", NoLocal)
            /\ bg_pc' = [bg_pc EXCEPT ![t] = "work"]
    /\ UNCHANGED <<sideVars, USE_CELERY, REDIS_URL, bg_local, retries, work_log,
                   dbVars, wfVars, next_uuid>>

\* line 99: creative_director.async_process returns
AioWorkReturns(t, result) ==
    /\ ~USE_CELERY
    /\ bg_pc[t] = "work"
    /\ bg_pc' = [bg_pc EXCEPT ![t] = "save_completed"]
    /\ bg_local' = [bg_local EXCEPT ![t] = result]
    /\ work_log' = [work_log EXCEPT ![t] = Append(@, result)]
    /\ UNCHANGED <<sideVars, configVars, store, ttl, retries, setex_log, dbVars, wfVars, next_uuid>>

\* line 99 raises: control goes to the handler at line 132
AioWorkRaises(t, err) ==
    /\ ~USE_CELERY
    /\ bg_pc[t] = "work"
    /\ bg_pc' = [bg_pc EXCEPT ![t] = "save_failed"]
    /\ bg_local' = [bg_local EXCEPT ![t] = [error |-> err]]
    /\ work_log' = [work_log EXCEPT ![t] = Append(@, [error |-> err])]
    /\ UNCHANGED <<sideVars, configVars, store, ttl, retries, setex_log, dbVars, wfVars, next_uuid>>

\* line 101: write "completed" with the result
AioSaveCompleted(t) ==
    /\ ~USE_CELERY
    /\ bg_pc[t] = "save_completed"
    /\ IF SaveRaises
       THEN /\ bg_pc' = [bg_pc EXCEPT ![t] = "crashed"]
            /\ UNCHANGED <<redis_client, store, ttl, setex_log>>
       ELSE /\ save_task_status(t, "completed", bg_local[t])
            /\ bg_pc' = [bg_pc EXCEPT ![t] = "db_update"]
    /\ UNCHANGED <<sideVars, USE_CELERY, REDIS_URL, bg_local, retries, work_log,
                   dbVars, wfVars, next_uuid>>

\* variant: no inner try block and scalar_one(): a database error or a
\* missing row reaches the handler at line 132
AioDbUpdate_strict(t, db_raises) ==
    /\ ~USE_CELERY
    /\ bg_pc[t] = "db_update"
    /\ IF db_raises \/ SelectRaises \/ Cardinality(RowsOfTask(t)) /= 1
       THEN /\ bg_pc' = [bg_pc EXCEPT ![t] = "save_failed"]
            /\ bg_local' = [bg_local EXCEPT ![t] = [error |-> "database error"]]
            /\ UNCHANGED dbVars
       ELSE /\ UpdateDatabase(t, bg_local[t], db_raises)
            /\ bg_pc' = [bg_pc EXCEPT ![t] = "done"]
            /\ UNCHANGED bg_local
    /\ UNCHANGED <<sideVars, configVars, store, ttl, retries, setex_log, work_log,
                   wfVars, next_uuid>>

\* lines 104-130: best-effort update of the saved itinerary, then return
AioDbUpdate(t, db_raises) ==
    /\ ~USE_CELERY
    /\ bg_pc[t] = "db_update"
    /\ UpdateDatabase(t, bg_local[t], db_raises)
    /\ bg_pc' = [bg_pc EXCEPT ![t] = "done"]
    /\ UNCHANGED <<sideVars, configVars, store, ttl, bg_local, retries, setex_log, work_log,
                   wfVars, next_uuid>>

\* lines 132-134: write "failed" with the error; no retry
AioSaveFailed(t) ==
    /\ ~USE_CELERY
    /\ bg_pc[t] = "save_failed"
    /\ IF SaveRaises
       THEN /\ bg_pc' = [bg_pc EXCEPT ![t] = "crashed"]
            /\ UNCHANGED <<redis_client, store, ttl, setex_log>>
       ELSE /\ save_task_status(t, "failed", bg_local[t])
            /\ bg_pc' = [bg_pc EXCEPT ![t] = "done"]
    /\ UNCHANGED <<sideVars, USE_CELERY, REDIS_URL, bg_local, retries, work_log,
                   dbVars, wfVars, next_uuid>>

generate_media_background(t) ==
    \/ AioStart(t)
    \/ \E result \in WorkResults : AioWorkReturns(t, result)
    \/ \E err \in WorkErrors : AioWorkRaises(t, err)
    \/ AioSaveCompleted(t)
    \/ \E db_raises \in BOOLEAN : AioDbUpdate(t, db_raises)
    \/ AioSaveFailed(t)

\* ------------------------------------------------------------------------
\* tasks.py, Celery mode: generate_media_task
\* ------------------------------------------------------------------------
\* lines 163-172: write "generating", then run the creative director
CeleryStart(t) ==
    /\ USE_CELERY
    /\ bg_pc[t] = "scheduled"
    /\ IF SaveRaises
       THEN /\ bg_pc' = [bg_pc EXCEPT ![t] = "crashed"]
            /\ UNCHANGED <<redis_client, store, ttl, setex_log>>
       ELSE /\ save_task_status(t, "generating", NoLocal)
            /\ bg_pc' = [bg_pc EXCEPT ![t] = "work"]
    /\ UNCHANGED <<sideVars, USE_CELERY, REDIS_URL, bg_local, retries, work_log,
                   dbVars, wfVars, next_uuid>>

\* lines 170-172: the media work returns
CeleryWorkReturns(t, result) ==
    /\ USE_CELERY
    /\ bg_pc[t] = "work"
    /\ bg_pc' = [bg_pc EXCEPT ![t] = "save_completed"]
    /\ bg_local' = [bg_local EXCEPT ![t] = result]
    /\ work_log' = [work_log EXCEPT ![t] = Append(@, result)]
    /\ UNCHANGED <<sideVars, configVars, store, ttl, retries, setex_log, dbVars, wfVars, next_uuid>>

\* lines 170-172 raise: control goes to the handler at line 209
CeleryWorkRaises(t, err) ==
    /\ USE_CELERY
    /\ bg_pc[t] = "work"
    /\ bg_pc' = [bg_pc EXCEPT ![t] = "save_failed"]
    /\ bg_local' = [bg_local EXCEPT ![t] = [error |-> err]]
    /\ work_log' = [work_log EXCEPT ![t] = Append(@, [error |-> err])]
    /\ UNCHANGED <<sideVars, configVars, store, ttl, retries, setex_log, dbVars, wfVars, next_uuid>>

\* line 175: write "completed" with the result
CelerySaveCompleted(t) ==
    /\ USE_CELERY
    /\ bg_pc[t] = "save_completed"
    /\ IF SaveRaises
       THEN /\ bg_pc' = [bg_pc EXCEPT ![t] = "crashed"]
            /\ UNCHANGED <<redis_client, store, ttl, setex_log>>
       ELSE /\ save_task_status(t, "completed", bg_local[t])
            /\ bg_pc' = [bg_pc EXCEPT ![t] = "db_update"]
    /\ UNCHANGED <<sideVars, USE_CELERY, REDIS_URL, bg_local, retries, work_log,
                   dbVars, wfVars, next_uuid>>

\* lines 178-207: update_db, then return the result
CeleryDbUpdate(t, db_raises) ==
    /\ USE_CELERY
    /\ bg_pc[t] = "db_update"
    /\ UpdateDatabase(t, bg_local[t], db_raises)
    /\ bg_pc' = [bg_pc EXCEPT ![t] = "done"]
    /\ UNCHANGED <<sideVars, configVars, store, ttl, bg_local, retries, setex_log, work_log,
                   wfVars, next_uuid>>

\* self.retry(exc=exc, countdown=60): the task is delivered again while
\* self.request.retries < max_retries, otherwise the exception is final
Retry(t) ==
    IF retries[t] < max_retries
    THEN /\ retries' = [retries EXCEPT ![t] = @ + 1]
         /\ bg_pc' = [bg_pc EXCEPT ![t] = "scheduled"]
    ELSE /\ retries' = retries
         /\ bg_pc' = [bg_pc EXCEPT ![t] = "done"]

\* lines 209-212: write "failed" with the error, then ask for a retry
CelerySaveFailed(t) ==
    /\ USE_CELERY
    /\ bg_pc[t] = "save_failed"
    /\ IF SaveRaises
       THEN /\ bg_pc' = [bg_pc EXCEPT ![t] = "crashed"]
            /\ UNCHANGED <<redis_client, store, ttl, setex_log, retries>>
       ELSE /\ save_task_status(t, "failed", bg_local[t])
            /\ Retry(t)
    /\ UNCHANGED <<sideVars, USE_CELERY, REDIS_URL, bg_local, work_log,
                   dbVars, wfVars, next_uuid>>

generate_media_task(t) ==
    \/ CeleryStart(t)
    \/ \E result \in WorkResults : CeleryWorkReturns(t, result)
    \/ \E err \in WorkErrors : CeleryWorkRaises(t, err)
    \/ CelerySaveCompleted(t)
    \/ \E db_raises \in BOOLEAN : CeleryDbUpdate(t, db_raises)
    \/ CelerySaveFailed(t)

\* ------------------------------------------------------------------------
\* The task system on its own: tasks are enqueued by a caller that has
\* generated the id (run_workflow, lines 320-324)
\* ------------------------------------------------------------------------
Enqueue ==
    /\ next_uuid <= MaxTasks
    /\ start_background_task(next_uuid)
    /\ next_uuid' = next_uuid + 1
    /\ UNCHANGED <<sideVars, configVars, dbVars, wfVars>>

\* clients register, save itineraries with any media_task_id or with
\* none, and delete their accounts
Register == \E user_id \in Users : register(user_id)

InitConfig ==
    /\ USE_CELERY \in BOOLEAN
    /\ REDIS_URL \in {None, "redis://localhost:6379/0"}
    /\ redis_client = IF Truthy(REDIS_URL) THEN "client" ELSE None

InitTasks ==
    /\ store = <<>>
    /\ ttl = [t \in TaskIds |-> 0]
    /\ last_poll = NoPoll
    /\ bg_pc = [t \in TaskIds |-> "none"]
    /\ bg_local = [t \in TaskIds |-> NoLocal]
    /\ retries = [t \in TaskIds |-> 0]
    /\ setex_log = [t \in TaskIds |-> <<>>]
    /\ work_log = [t \in TaskIds |-> <<>>]
    /\ itineraries = <<>>
    /\ users = {}
    /\ user_ids = {}
    /\ saving = EmptyBag
    /\ deleting = EmptyBag
    /\ save_log = <<>>
    /\ next_uuid = 1

InitWorkflow ==
    /\ req_no = 0
    /\ pc = "idle"
    /\ user_message = <<>>
    /\ current_context = [destination |-> None, profile |-> <<>>]
    /\ destination = None
    /\ gather_results = [p \in Providers |-> NotStarted]
    /\ synthesis_context = <<>>
    /\ response = <<>>
    /\ profile_result = <<>>
    /\ phase_log = <<>>

\* no TrendSpotterAgent.async_process call has been made
InitTrend ==
    /\ ts_pc = "idle"
    /\ ts_client = None
    /\ original_location = <<>>
    /\ current_location = <<>>
    /\ attempt = 0
    /\ final_trends = <<>>
    /\ raw_count = 0
    /\ ts_result = <<>>
    /\ fetch_log = <<>>
    /\ llm_log = <<>>

Callers == {"a", "b"}

\* no ProfilerAgent has been constructed
InitProfiler ==
    /\ prof_client = "unborn"
    /\ current_profile = <<>>
    /\ prof_pc = [c \in Callers |-> "idle"]
    /\ prof_call = [c \in Callers |-> <<>>]
    /\ prof_result = [c \in Callers |-> <<>>]
    /\ prof_started = 0
    /\ own = [c \in Callers |-> {}]

\* no request has been routed
NoRoute == [cache_hit |-> FALSE, context_itinerary |-> FALSE, saved |-> FALSE,
            served_by |-> "none"]

\* chat_endpoint has received nothing; itinerary_cache = TTLCache(...) is empty
InitChat ==
    /\ chat_pc = "idle"
    /\ chat_req = <<>>
    /\ itinerary_cache = [u \in Users |-> <<>>]
    /\ http = <<>>
    /\ route = NoRoute
    /\ logged = None
    /\ chat_no = 0

\* the optimizer has not been called
InitOptimizer ==
    /\ opt_pc = "idle"
    /\ opt_args = <<>>
    /\ opt_locals = <<>>
    /\ opt_plan = <<>>
    /\ opt_data = <<>>
    /\ opt_no = 0

\* generate_response has not been called
InitGenerate ==
    /\ gen_pc = "idle"
    /\ gen_client = None
    /\ gen_api = <<>>
    /\ gen_retries = 0
    /\ gen_result = <<>>
    /\ gen_no = 0

\* generate_video has not been called for the task
VideoIdle ==
    [pc |-> "idle", done |-> FALSE, elapsed |-> 0, url |-> None, timed_out |-> FALSE]

InitVideo == video = [t \in TaskIds |-> VideoIdle]

\* request_queue = RequestQueue(): an empty deque, the lock free
InitRequestQueue ==
    /\ clock = 0
    /\ requests = <<>>
    /\ lock = <<>>
    /\ rq_pc = [c \in Callers |-> "idle"]
    /\ rq_now = [c \in Callers |-> 0]
    /\ admitted = <<>>

Init ==
    /\ InitConfig /\ InitTasks /\ InitWorkflow /\ InitTrend /\ InitProfiler /\ InitChat
    /\ InitOptimizer /\ InitGenerate /\ InitVideo /\ InitRequestQueue

NextTasks ==
    \/ Enqueue
    \/ \E t \in TaskIds : generate_media_background(t)
    \/ \E t \in TaskIds : generate_media_task(t)
    \/ \E t \in TaskIds : Expire(t)

SpecTasks == Init /\ [][NextTasks]_vars

\* the event loop and the Celery worker keep running the tasks they hold
FairSpecTasks ==
    /\ SpecTasks
    /\ \A t \in TaskIds : WF_vars(generate_media_background(t))
    /\ \A t \in TaskIds : WF_vars(generate_media_task(t))

\* ------------------------------------------------------------------------
\* Status lookups by a client that holds a task id (main.py, lines 726-765)
\* ------------------------------------------------------------------------
\* number of task ids handed out where lookups or saved rows are followed
MaxPolled == 1

\* parity of the number of lookups made so far
NextSeq == IF last_poll = NoPoll THEN 1 ELSE 1 - last_poll.seq

\* variant: the lookup also renews the key's time to live (GETEX)
PollTaskStatus_touch(t) ==
    /\ bg_pc[t] /= "none"
    /\ get_redis /= None
    /\ redis_client' = get_redis
    /\ last_poll' = [polled |-> TRUE, task_id |-> t, seq |-> NextSeq,
                     data |-> get_task_status(t)]
    /\ ttl' = [ttl EXCEPT ![t] = IF t \in DOMAIN store THEN task_ttl ELSE @]
    /\ UNCHANGED <<USE_CELERY, REDIS_URL, store, bg_pc, bg_local, retries,
                   setex_log, work_log, dbVars, wfVars, next_uuid, trendVars,
                   extVars>>

\* `await get_task_status(task_id)`: r.get of the key; without a Redis
\* client the call raises (AttributeError on None)
PollTaskStatus(t) ==
    /\ bg_pc[t] /= "none"
    /\ redis_client' = get_redis
    /\ last_poll' =
          IF get_redis = None
          THEN [polled |-> TRUE, task_id |-> t, seq |-> NextSeq,
                data |-> <<[exception |-> "AttributeError"]>>]
          ELSE [polled |-> TRUE, task_id |-> t, seq |-> NextSeq,
                data |-> get_task_status(t)]
    /\ UNCHANGED <<USE_CELERY, REDIS_URL, taskVars, dbVars, wfVars, next_uuid,
                   trendVars, extVars>>

\* the same lookup for a task id that start_background_task never received
\* (GET /api/media-status/{task_id} accepts any id)
PollUnknownTask(t) ==
    /\ bg_pc[t] = "none"
    /\ redis_client' = get_redis
    /\ last_poll' =
          IF get_redis = None
          THEN [polled |-> TRUE, task_id |-> t, seq |-> NextSeq,
                data |-> <<[exception |-> "AttributeError"]>>]
          ELSE [polled |-> TRUE, task_id |-> t, seq |-> NextSeq,
                data |-> get_task_status(t)]
    /\ UNCHANGED <<USE_CELERY, REDIS_URL, taskVars, dbVars, wfVars, next_uuid,
                   trendVars, extVars>>

\* part of a stored key's lifetime elapses
Age(t) ==
    /\ t \in DOMAIN store
    /\ ttl[t] = task_ttl
    /\ ttl' = [ttl EXCEPT ![t] = task_ttl - 1]
    /\ UNCHANGED <<sideVars, configVars, store, bg_pc, bg_local, retries,
                   setex_log, work_log, dbVars, wfVars, next_uuid>>

\* run_workflow hands out a task id (lines 320-324)
EnqueuePolled == next_uuid <= MaxPolled /\ Enqueue

NextPoll ==
    \/ EnqueuePolled
    \/ \E t \in TaskIds : generate_media_background(t)
    \/ \E t \in TaskIds : generate_media_task(t)
    \/ \E t \in TaskIds : Expire(t)
    \/ \E t \in TaskIds : Age(t)
    \/ \E t \in TaskIds : PollTaskStatus(t)

SpecPoll == Init /\ [][NextPoll]_vars

\* the lookups of any task id, enqueued or not
NextLookup ==
    \/ NextPoll
    \/ \E t \in TaskIds : PollUnknownTask(t)

SpecLookup == Init /\ [][NextLookup]_vars

\* the event loop and the Celery worker keep running the tasks they hold
FairSpecPoll ==
    /\ SpecPoll
    /\ \A t \in TaskIds : WF_vars(generate_media_background(t))
    /\ \A t \in TaskIds : WF_vars(generate_media_task(t))

\* the task system with a client that saves itineraries (main.py, 664-689)
NextDb ==
    \/ EnqueuePolled
    \/ \E t \in TaskIds : generate_media_background(t)
    \/ \E t \in TaskIds : generate_media_task(t)
    \/ \E t \in TaskIds : Expire(t)
    \/ Register
    \/ save_itinerary
    \/ delete_account

SpecDb == Init /\ [][NextDb]_vars

\* the event loop and the Celery worker keep running the tasks they hold
FairSpecDb ==
    /\ SpecDb
    /\ \A t \in TaskIds : WF_vars(generate_media_background(t))
    /\ \A t \in TaskIds : WF_vars(generate_media_task(t))

\* ------------------------------------------------------------------------
\* main.py: AntigravityAgentManager.run_workflow
\* ------------------------------------------------------------------------
\* the keyword list of _should_trigger_research
keywords ==
    { <<"p","l","a","n">>,
      <<"i","t","i","n","e","r","a","r","y">>,
      <<"g","o"," ","t","o">>,
      <<"t","r","i","p">>,
      <<"b","o","o","k">>,
      <<"s","c","h","e","d","u","l","e">>,
      <<"t","r","a","v","e","l">>,
      <<"v","i","s","i","t">>,
      <<"f","l","y">>,
      <<"d","e","s","t","i","n","a","t","i","o","n">> }

\* variant: the gate lets every message through
_should_trigger_research_always(message, profile) == TRUE

\* _should_trigger_research(message, profile)
_should_trigger_research(message, profile) ==
    LET has_keyword == \E k \in keywords : Contains(Lower(message), k)
        has_destination == Truthy(Get(profile, "destination", None))
    IN has_keyword \/ has_destination

\* the message of the early return (lines 278-280)
EarlyMessage(result) ==
    LET follow_ups == Get(result, "follow_up_questions", <<>>)
        changes == Get(result, "extracted_preferences", <<>>)
    IN IF Len(follow_ups) > 0 THEN Join(follow_ups)
       ELSE IF Len(changes) > 0 THEN <<changes[1]>>
       ELSE <<"Tell me more about your trip!">>

\* line 292: profile destination, else context destination, else "Paris"
ResolveDestination(profile, context) ==
    OrElse(Get(profile, "destination", None),
           OrElse(Get(context, "destination", None), "Paris"))

\* lines 294-296: the query each research provider is called with
ProviderQuery(p, dest) ==
    IF p = "trend_spotter" THEN <<"trends in ", dest>> ELSE <<dest>>

\* one entry of synthesis_context (lines 308-310)
ResultList(data, key) == IF ~IsException(data) THEN Get(data, key, <<>>) ELSE <<>>

\* variant: the trend provider's list is read under the key "results"
SynthesisContext_wrongkey(profile, results) ==
    [profile |-> profile,
     destinations |-> ResultList(results["pathfinder"], "results"),
     trends |-> ResultList(results["trend_spotter"], "results"),
     accommodations |-> ResultList(results["concierge"], "results")]

\* lines 306-311
SynthesisContext(profile, results) ==
    [profile |-> profile,
     destinations |-> ResultList(results["pathfinder"], "results"),
     trends |-> ResultList(results["trend_spotter"], "trends"),
     accommodations |-> ResultList(results["concierge"], "results")]

\* variant: the fan-in returns as soon as one coroutine has finished
GatherDone_first(results) == \E p \in Providers : IsDone(results[p])

\* asyncio.gather(..., return_exceptions=True) is complete when every
\* coroutine has returned or raised
GatherDone(results) == \A p \in Providers : IsDone(results[p])

\* variant: the research coroutines are started together with the profiler
StartRequest_eager(message, context_destination) ==
    /\ pc \in {"idle", "responded", "raised"}
    /\ req_no < MaxRequests
    /\ next_uuid <= MaxTasks
    /\ req_no' = req_no + 1
    /\ user_message' = message
    /\ current_context' = [destination |-> context_destination, profile |-> <<>>]
    /\ destination' = None
    /\ gather_results' = [p \in Providers |-> Running]
    /\ synthesis_context' = <<>>
    /\ response' = <<>>
    /\ profile_result' = <<>>
    /\ phase_log' = <<"profiling_call">>
    /\ pc' = "profiling"
    /\ UNCHANGED <<sideVars, configVars, taskVars, dbVars, next_uuid>>

\* a request arrives: line 269, the call of profiler.async_process
WfStart(message, context_destination) ==
    /\ pc \in {"idle", "responded", "raised"}
    /\ req_no < MaxRequests
    /\ next_uuid <= MaxTasks
    /\ req_no' = req_no + 1
    /\ user_message' = message
    /\ current_context' = [destination |-> context_destination, profile |-> <<>>]
    /\ destination' = None
    /\ gather_results' = [p \in Providers |-> NotStarted]
    /\ synthesis_context' = <<>>
    /\ response' = <<>>
    /\ profile_result' = <<>>
    /\ phase_log' = <<"profiling_call">>
    /\ pc' = "profiling"
    /\ UNCHANGED <<configVars, taskVars, dbVars, next_uuid>>

\* the same step in a process that serves this invocation alone
StartRequest(message, context_destination) ==
    /\ WfStart(message, context_destination)
    /\ UNCHANGED sideVars

\* lines 269-299: the profiler returns; gate; early return or fan-out
WfProfilingReturns(result) ==
    /\ pc = "profiling"
    /\ LET updated_profile == Get(result, "profile", <<>>) IN
       /\ current_context' = [current_context EXCEPT !.profile = <<updated_profile>>]
       /\ IF ~_should_trigger_research(user_message, updated_profile)
          THEN /\ response' = << [agent |-> "profiler",
                                  status |-> "success",
                                  message |-> EarlyMessage(result),
                                  profile |-> <<updated_profile>>,
                                  data |-> <<>>,
                                  creative |-> <<>>] >>
               /\ profile_result' = <<result>>
               /\ phase_log' = phase_log \o <<"profiling_return", "respond">>
               /\ pc' = "responded"
               /\ UNCHANGED <<destination, gather_results>>
          ELSE /\ destination' = ResolveDestination(updated_profile, current_context)
               /\ gather_results' = [p \in Providers |-> Running]
               /\ phase_log' = phase_log \o <<"profiling_return", "research_start">>
               /\ pc' = "researching"
               /\ UNCHANGED <<response, profile_result>>
    /\ UNCHANGED <<configVars, taskVars, dbVars, next_uuid,
                   req_no, user_message, synthesis_context>>

\* the same step in a process that serves this invocation alone
ProfilingReturns(result) ==
    /\ WfProfilingReturns(result)
    /\ UNCHANGED sideVars

\* line 269 raises: the exception leaves run_workflow
WfProfilingRaises ==
    /\ pc = "profiling"
    /\ pc' = "raised"
    /\ phase_log' = Append(phase_log, "raise")
    /\ UNCHANGED <<configVars, taskVars, dbVars, next_uuid, req_no, user_message,
                   current_context, destination, gather_results,
                   synthesis_context, response, profile_result>>

\* the same step in a process that serves this invocation alone
ProfilingRaises ==
    /\ WfProfilingRaises
    /\ UNCHANGED sideVars

\* one research coroutine returns its dictionary or raises
ProviderFinishes(p, outcome) ==
    /\ pc = "researching"
    /\ gather_results[p] = Running
    /\ gather_results' = [gather_results EXCEPT ![p] = outcome]
    /\ UNCHANGED <<sideVars, configVars, taskVars, dbVars, next_uuid, req_no, pc,
                   user_message, current_context, destination,
                   synthesis_context, response, profile_result, phase_log>>

\* lines 299-313: gather returns, the context is built, the optimizer called
GatherReturns ==
    /\ pc = "researching"
    /\ GatherDone(gather_results)
    /\ synthesis_context' =
           << SynthesisContext(current_context.profile[1], gather_results) >>
    /\ phase_log' = phase_log \o <<"research_done", "synthesis_call">>
    /\ pc' = "synthesizing"
    /\ UNCHANGED <<sideVars, configVars, taskVars, dbVars, next_uuid, req_no,
                   user_message, current_context, destination,
                   gather_results, response, profile_result>>

\* variant: AgentResponse takes any message
Validates_any(message) == TRUE

\* AgentResponse (main.py, lines 130-136): `message: str`; the other
\* arguments of line 325 are of the declared types
Validates(message) == IsStr(message)

\* the text of the pydantic ValidationError
ValidationError == "ValidationError: message: Input should be a valid string"

\* lines 313-340: the optimizer returns; task id, enqueue, then the
\* response, or the ValidationError of AgentResponse(...)
WfSynthesisReturns(final_plan) ==
    /\ pc = "synthesizing"
    /\ LET task_id == next_uuid
           message == Get(final_plan, "summary", Str("Here is your plan!"))
       IN
       /\ next_uuid' = next_uuid + 1
       /\ start_background_task(task_id)
       /\ IF Validates(message)
          THEN /\ response' = << [agent |-> "optimizer",
                                  status |-> "success",
                                  message |-> <<IF IsStr(message) THEN message.str ELSE message>>,
                                  profile |-> current_context.profile,
                                  data |-> << [itinerary |-> final_plan] >>,
                                  creative |-> << [poster_url |-> None,
                                                   video_url |-> None,
                                                   status |-> "generating",
                                                   task_id |-> task_id] >>] >>
               /\ phase_log' = phase_log \o <<"synthesis_return", "enqueue", "respond">>
               /\ pc' = "responded"
          ELSE /\ response' = response
               /\ phase_log' = phase_log \o <<"synthesis_return", "enqueue", "raise">>
               /\ pc' = "raised"
    \* the locals of the research and synthesis phases go out of scope
    /\ gather_results' = [p \in Providers |-> NotStarted]
    /\ synthesis_context' = <<>>
    /\ UNCHANGED <<configVars, dbVars, req_no, user_message, current_context,
                   destination, profile_result>>

\* the same step in a process that serves this invocation alone
SynthesisReturns(final_plan) ==
    /\ WfSynthesisReturns(final_plan)
    /\ UNCHANGED sideVars

\* line 313 raises: the exception leaves run_workflow
WfSynthesisRaises ==
    /\ pc = "synthesizing"
    /\ pc' = "raised"
    /\ phase_log' = phase_log \o <<"raise">>
    /\ gather_results' = [p \in Providers |-> NotStarted]
    /\ synthesis_context' = <<>>
    /\ UNCHANGED <<configVars, taskVars, dbVars, next_uuid, req_no, user_message,
                   current_context, destination, response, profile_result>>

\* the same step in a process that serves this invocation alone
SynthesisRaises ==
    /\ WfSynthesisRaises
    /\ UNCHANGED sideVars

run_workflow ==
    \/ \E message \in Messages, cd \in ContextDestinations : StartRequest(message, cd)
    \/ \E result \in ProfilerResults : ProfilingReturns(result)
    \/ ProfilingRaises
    \/ \E p \in Providers : \E outcome \in ProviderOutcomes(p) : ProviderFinishes(p, outcome)
    \/ GatherReturns
    \/ \E final_plan \in Plans : SynthesisReturns(final_plan)
    \/ SynthesisRaises

Next ==
    \/ run_workflow
    \/ \E t \in TaskIds : generate_media_background(t)
    \/ \E t \in TaskIds : generate_media_task(t)

Spec == Init /\ [][Next]_vars

\* ------------------------------------------------------------------------
\* main.py: chat_endpoint (lines 582-662)
\* ------------------------------------------------------------------------
\* the detail of the HTTPException of line 662
FixedDetail == "An internal error occurred while processing your request."

\* variant: the text of the exception is sent to the caller
HttpError_leaky(e) == [status_code |-> 500, detail |-> e]

\* lines 660-662: every exception of the handler becomes the same answer
HttpError(e) == [status_code |-> 500, detail |-> FixedDetail]

\* what an exception caught at line 660 carries
ChatErrors == { "Traceback: boom" }

\* an itinerary and a profile a client may send in chat_req.preferences,
\* and the dictionary {}
OldItinerary == [daily_itinerary |-> <<"old">>]
EmptyDict == <<>>
SentProfile == [destination |-> "Rome"]

\* inputs of one request: chat_req.preferences, each key absent (<<>>) or
\* present; the user is the one get_optional_user returns (None for a
\* guest or a deleted account)
ChatPreferences ==
    [ destination : ContextDestinations,
      existing_itinerary : { <<>>, <<OldItinerary>> },
      itinerary : { <<>> },
      profile : { <<>> } ]
    \cup
    [ destination : { None },
      existing_itinerary : { <<>> },
      itinerary : { <<OldItinerary>> },
      profile : { <<>>, <<SentProfile>> } ]
    \cup
    [ destination : { None },
      existing_itinerary : { <<OldItinerary>>, <<EmptyDict>> },
      itinerary : { <<>> },
      profile : { <<SentProfile>> } ]

\* bool(d.get(key)) for a dictionary value: present and not empty
HasDict(value) == value /= <<>> /\ value[1] /= EmptyDict

\* line 611: preferences.get("existing_itinerary") or preferences.get("itinerary")
ContextItinerary(preferences) ==
    HasDict(preferences.existing_itinerary) \/ HasDict(preferences.itinerary)

\* what chatbot.async_process returns when called with this context
\* (agents/chatbot.py): the optimizer's plan on a change request (line 52),
\* else the existing itinerary of the context, if any (lines 79-83)
ChatbotResponses(context) ==
    { [type |-> "optimization_update", text |-> "t1",
       data |-> << [itinerary |-> plan] >>] : plan \in Plans }
    \cup
    { [type |-> "standard_chat", text |-> "t2",
       data |-> IF HasDict(context.existing_itinerary)
                THEN << [itinerary |-> context.existing_itinerary[1]] >>
                ELSE <<>>] }

\* lines 629-646: the chatbot's dictionary as an AgentResponse
ChatbotAnswer(chatbot_response, preferences) ==
    [agent |-> "chatbot",
     status |-> "success",
     message |-> <<Get(chatbot_response, "text", "")>>,
     profile |-> preferences.profile,
     data |-> IF Get(chatbot_response, "type", None) = "optimization_update"
              THEN Get(chatbot_response, "data", <<>>)
              ELSE <<>>,
     creative |-> <<>>]

\* `select(exists(... Itinerary.user_id == user.id))` (line 617)
HasSavedItinerary(user) == \E i \in 1..Len(itineraries) : itineraries[i].user_id = user

\* variant: every response to an authenticated user is cached
CacheAfter_any(cache, user, resp) ==
    IF user /= None
    THEN [cache EXCEPT ![user] =
            IF resp.data /= <<>> /\ "itinerary" \in DOMAIN resp.data[1]
            THEN << resp.data[1].itinerary >>
            ELSE << [daily_itinerary |-> <<>>] >>]
    ELSE cache

\* lines 653-656: a new itinerary of an authenticated user is cached
CacheAfter(cache, user, resp) ==
    IF user /= None /\ resp.data /= <<>> /\ "itinerary" \in DOMAIN resp.data[1]
    THEN [cache EXCEPT ![user] = << resp.data[1].itinerary >>]
    ELSE cache

\* the except clause: log, then raise the HTTPException
ChatFails(err) ==
    /\ logged' = err
    /\ http' = << HttpError(err) >>
    /\ chat_pc' = "done"

\* lines 603-621 up to the first await: the check that decides how the
\* request goes on, given the user's cache entry (<<>> if the TTLCache holds
\* none): the entry, else the itinerary of the request context, else for a
\* user the EXISTS query, else the pipeline
FirstCheck(entry, user, preferences) ==
    IF user /= None /\ entry /= <<>> THEN "cache"
    ELSE IF ContextItinerary(preferences) THEN "context"
    ELSE IF user /= None THEN "db_check"
    ELSE "pipeline"

\* lines 596-627 / 651, up to the first await of the handler. `expired`:
\* the TTLCache of line 73 no longer holds the user's entry (older than
\* 600 s, or evicted beyond 1000 entries) when line 604 looks it up
ChatReceive(user, message, preferences, expired) ==
    /\ chat_pc \in {"idle", "done"}
    /\ chat_no < MaxRequests
    /\ chat_no' = chat_no + 1
    /\ http' = <<>>
    /\ logged' = None
    /\ itinerary_cache' = IF user /= None /\ expired
                          THEN [itinerary_cache EXCEPT ![user] = <<>>]
                          ELSE itinerary_cache
    /\ \E entry \in {IF user /= None /\ ~expired THEN itinerary_cache[user] ELSE <<>>} :
       \E check \in {FirstCheck(entry, user, preferences)} :
          CASE check = "cache" ->
                 /\ chat_req' = [user |-> user, message |-> message,
                                 preferences |-> [preferences EXCEPT
                                     !.existing_itinerary = entry]]
                 /\ route' = [cache_hit |-> TRUE,
                              context_itinerary |-> ContextItinerary(preferences),
                              saved |-> HasSavedItinerary(user),
                              served_by |-> "chatbot"]
                 /\ chat_pc' = "chatbot"
                 /\ UNCHANGED <<configVars, taskVars, dbVars, wfVars, next_uuid>>
            [] check = "context" ->
                 /\ chat_req' = [user |-> user, message |-> message,
                                 preferences |-> preferences]
                 /\ route' = [cache_hit |-> FALSE, context_itinerary |-> TRUE,
                              saved |-> IF user = None THEN FALSE
                                        ELSE HasSavedItinerary(user),
                              served_by |-> "chatbot"]
                 /\ chat_pc' = "chatbot"
                 /\ UNCHANGED <<configVars, taskVars, dbVars, wfVars, next_uuid>>
            [] check = "db_check" ->
                 /\ chat_req' = [user |-> user, message |-> message,
                                 preferences |-> preferences]
                 /\ route' = [NoRoute EXCEPT !.served_by = "pending"]
                 /\ chat_pc' = "db_check"
                 /\ UNCHANGED <<configVars, taskVars, dbVars, wfVars, next_uuid>>
            [] check = "pipeline" ->
                 /\ chat_req' = [user |-> user, message |-> message,
                                 preferences |-> preferences]
                 /\ route' = [NoRoute EXCEPT !.served_by = "pipeline"]
                 /\ chat_pc' = "pipeline"
                 /\ WfStart(message, preferences.destination)
    /\ UNCHANGED <<pollVars, trendVars, profVars, optVars, genVars, videoVars, rqVars>>

\* lines 617-621 and the routing that follows: the EXISTS query answers
ChatDbReturns ==
    /\ chat_pc = "db_check"
    /\ IF HasSavedItinerary(chat_req.user)
       THEN /\ route' = [NoRoute EXCEPT !.saved = TRUE, !.served_by = "chatbot"]
            /\ chat_pc' = "chatbot"
            /\ UNCHANGED <<configVars, taskVars, dbVars, wfVars, next_uuid>>
       ELSE /\ route' = [NoRoute EXCEPT !.served_by = "pipeline"]
            /\ chat_pc' = "pipeline"
            /\ WfStart(chat_req.message, chat_req.preferences.destination)
    /\ UNCHANGED <<chat_req, itinerary_cache, http, logged, chat_no>>
    /\ UNCHANGED <<pollVars, trendVars, profVars, optVars, genVars, videoVars, rqVars>>

\* the EXISTS query raises
ChatDbRaises(err) ==
    /\ chat_pc = "db_check"
    /\ ChatFails(err)
    /\ UNCHANGED <<chat_req, itinerary_cache, route, chat_no>>
    /\ UNCHANGED <<configVars, taskVars, dbVars, wfVars, next_uuid, pollVars, trendVars,
                   profVars, optVars, genVars, videoVars, rqVars>>

\* lines 627-645: the chatbot answers
ChatbotReturns(chatbot_response) ==
    /\ chat_pc = "chatbot"
    /\ http' = << ChatbotAnswer(chatbot_response, chat_req.preferences) >>
    /\ chat_pc' = "done"
    /\ UNCHANGED <<chat_req, itinerary_cache, route, logged, chat_no>>
    /\ UNCHANGED <<configVars, taskVars, dbVars, wfVars, next_uuid, pollVars, trendVars,
                   profVars, optVars, genVars, videoVars, rqVars>>

\* chatbot.async_process raises
ChatbotRaises(err) ==
    /\ chat_pc = "chatbot"
    /\ ChatFails(err)
    /\ UNCHANGED <<chat_req, itinerary_cache, route, chat_no>>
    /\ UNCHANGED <<configVars, taskVars, dbVars, wfVars, next_uuid, pollVars, trendVars,
                   profVars, optVars, genVars, videoVars, rqVars>>

\* run_workflow line 269 returns; on the early return the handler answers
ChatProfilingReturns(result) ==
    /\ chat_pc = "pipeline"
    /\ WfProfilingReturns(result)
    /\ IF pc' = "responded"
       THEN /\ itinerary_cache' = CacheAfter(itinerary_cache, chat_req.user, response'[1])
            /\ http' = response'
            /\ chat_pc' = "done"
       ELSE UNCHANGED <<itinerary_cache, http, chat_pc>>
    /\ UNCHANGED <<chat_req, route, logged, chat_no, pollVars, trendVars, profVars, optVars, genVars, videoVars, rqVars>>

\* run_workflow line 269 raises; the handler catches the exception
ChatProfilingRaises(err) ==
    /\ chat_pc = "pipeline"
    /\ WfProfilingRaises
    /\ ChatFails(err)
    /\ UNCHANGED <<chat_req, itinerary_cache, route, chat_no, pollVars, trendVars, profVars, optVars, genVars, videoVars, rqVars>>

\* run_workflow returns the plan (lines 653-658), or raises after the
\* enqueue and the handler catches the exception
ChatSynthesisReturns(final_plan) ==
    /\ chat_pc = "pipeline"
    /\ WfSynthesisReturns(final_plan)
    /\ IF pc' = "responded"
       THEN /\ itinerary_cache' = CacheAfter(itinerary_cache, chat_req.user, response'[1])
            /\ http' = response'
            /\ chat_pc' = "done"
            /\ UNCHANGED logged
       ELSE /\ ChatFails(ValidationError)
            /\ UNCHANGED itinerary_cache
    /\ UNCHANGED <<chat_req, route, chat_no, pollVars, trendVars, profVars, optVars, genVars, videoVars, rqVars>>

\* run_workflow line 313 raises; the handler catches the exception
ChatSynthesisRaises(err) ==
    /\ chat_pc = "pipeline"
    /\ WfSynthesisRaises
    /\ ChatFails(err)
    /\ UNCHANGED <<chat_req, itinerary_cache, route, chat_no, pollVars, trendVars, profVars, optVars, genVars, videoVars, rqVars>>

chat_endpoint ==
    \/ \E user \in {None} \cup users, message \in Messages, preferences \in ChatPreferences,
          expired \in BOOLEAN :
          ChatReceive(user, message, preferences, expired)
    \/ ChatDbReturns
    \/ \E err \in ChatErrors : ChatDbRaises(err)
    \/ /\ chat_pc = "chatbot"
       /\ \E chatbot_response \in ChatbotResponses(chat_req.preferences) :
             ChatbotReturns(chatbot_response)
    \/ \E err \in ChatErrors : ChatbotRaises(err)
    \/ \E result \in ProfilerResults : ChatProfilingReturns(result)
    \/ \E err \in ChatErrors : ChatProfilingRaises(err)
    \/ \E p \in Providers : \E outcome \in ProviderOutcomes(p) : ProviderFinishes(p, outcome)
    \/ GatherReturns
    \/ \E final_plan \in Plans : ChatSynthesisReturns(final_plan)
    \/ \E err \in ChatErrors : ChatSynthesisRaises(err)

\* the endpoint and clients that save itineraries and delete accounts; the
\* media tasks it enqueues are left where start_background_task put them
NextChat ==
    \/ chat_endpoint
    \/ Register
    \/ save_itinerary
    \/ delete_account

\* a deployment without Celery and without Redis (tasks.py, lines 20-33)
InitChatEndpoint == Init /\ ~USE_CELERY /\ REDIS_URL = None

SpecChat == InitChatEndpoint /\ [][NextChat]_vars

\* ------------------------------------------------------------------------
\* agents/optimizer.py: OptimizerAgent.process as an operation, and its
\* caller in the chatbot
\* ------------------------------------------------------------------------
\* process (lines 137-191): the whole call, with its locals num_days,
\* start_date and itinerary
process(query, dates, now) ==
    /\ opt_pc \in {"idle", "delivered", "raised"}
    /\ opt_no < MaxRequests
    /\ opt_no' = opt_no + 1
    /\ opt_args' = << [query |-> query, dates |-> dates, now |-> now] >>
    /\ \E num_days \in {_extract_num_days(query, dates)} :
       \E start_date \in {_extract_start_date(dates, now)} :
           /\ opt_locals' = << [num_days |-> num_days, start_date |-> start_date] >>
           /\ IF DayOverflows(num_days, start_date)
              THEN /\ opt_plan' = <<>>
                   /\ opt_pc' = "raised"
              ELSE \E itinerary \in {_build_itinerary(num_days, start_date)} :
                   /\ opt_plan' = << [agent |-> "optimizer",
                                      itinerary |-> itinerary,
                                      total_days |-> num_days,
                                      status |-> IF itinerary /= <<>> THEN "success"
                                                 ELSE "no_itinerary_generated"] >>
                   /\ opt_pc' = "returned"
    /\ opt_data' = <<>>
    /\ UNCHANGED <<configVars, taskVars, dbVars, wfVars, next_uuid, pollVars, trendVars,
                   profVars, chatVars, genVars, videoVars, rqVars>>

\* chatbot.py lines 41-52: the chatbot, the caller of async_process, has its
\* reassurance text and hands the plan on unchanged as data["itinerary"]
OptimizerPlanReturned ==
    /\ opt_pc = "returned"
    /\ opt_data' = << [itinerary |-> opt_plan[1]] >>
    /\ opt_pc' = "delivered"
    /\ UNCHANGED <<opt_args, opt_locals, opt_plan, opt_no>>
    /\ UNCHANGED <<configVars, taskVars, dbVars, wfVars, next_uuid, pollVars, trendVars,
                   profVars, chatVars, genVars, videoVars, rqVars>>

\* chatbot.py line 50: generate_response raises for the reassurance text
\* (its third rate-limit error); the plan is not handed on
ReassuranceRaises ==
    /\ opt_pc = "returned"
    /\ opt_pc' = "raised"
    /\ UNCHANGED <<opt_args, opt_locals, opt_plan, opt_data, opt_no>>
    /\ UNCHANGED <<configVars, taskVars, dbVars, wfVars, next_uuid, pollVars, trendVars,
                   profVars, chatVars, genVars, videoVars, rqVars>>

optimizer_async_process ==
    \/ \E query \in OptimizerQueries, dates \in OptimizerDates, now \in Clock :
          process(query, dates, now)
    \/ OptimizerPlanReturned
    \/ ReassuranceRaises

SpecOptimizer == InitChatEndpoint /\ [][optimizer_async_process]_vars

\* ------------------------------------------------------------------------
\* agents/base.py: BaseAgent.generate_response
\* A text is None or a sequence of pieces (characters or longer fragments).
\* ------------------------------------------------------------------------
\* max_retries = 3 in generate_response (line 76)
max_retries_llm == 3

RateLimited(err) == err \in {"429", "RESOURCE_EXHAUSTED"}

\* an API answer whose response.text is None
NoText == [no_text |-> TRUE]

\* the value None as generate_response returns it
NoneValue == [none |-> TRUE]

\* the while loop of lines 79-114 over the outcomes of the successive API
\* calls: [text |-> response.text], NoText or [error |-> str(e)]
RECURSIVE GenerateLoop(_, _, _)
GenerateLoop(api, i, n) ==
    IF n > max_retries_llm \/ i > Len(api) THEN [value |-> <<>>]
    ELSE IF "text" \in DOMAIN api[i] THEN [value |-> api[i].text]
    ELSE IF api[i] = NoText THEN NoneValue
    ELSE IF RateLimited(api[i].error)
         THEN IF n + 1 > max_retries_llm THEN [exception |-> api[i].error]
              ELSE GenerateLoop(api, i + 1, n + 1)
    ELSE [value |-> <<>>]

ClientMissing == <<"Error: Client not initialized (Missing API Key)">>

\* generate_response(prompt): [value |-> text], NoneValue or
\* [exception |-> error]
generate_response(client, api) ==
    IF client = None THEN [value |-> ClientMissing]
    ELSE GenerateLoop(api, 1, 0)

\* ------------------------------------------------------------------------
\* backend/agents/trend_spotter.py: TrendSpotterAgent
\* ------------------------------------------------------------------------
\* max_retries = 3 in async_process (line 42)
max_retries_trend == 3

Whitespace == {" ", "\n", "\t"}

\* str.strip()
RECURSIVE Strip(_)
Strip(s) ==
    IF s = <<>> THEN s
    ELSE IF Head(s) \in Whitespace THEN Strip(Tail(s))
    ELSE IF s[Len(s)] \in Whitespace THEN Strip(SubSeq(s, 1, Len(s) - 1))
    ELSE s

\* str.replace(piece, "")
Remove(s, piece) == SelectSeq(s, LAMBDA c : c /= piece)

\* response.strip().replace('"', '').replace("'", "")  (line 108)
CleanLocation(text) == Remove(Remove(Strip(text), "\""), "'")

\* the markdown code fences (three backquotes, with and without "json")
FenceJson == "(fence)json"
Fence == "(fence)"

\* json.loads on the JSON documents the inputs contain
JsonDocuments ==
    [doc \in {"{trends:[t1]}", "{trends:[]}", "{}", "[]"} |->
        CASE doc = "{trends:[t1]}" -> [kind |-> "dict", value |-> [trends |-> <<"t1">>]]
          [] doc = "{trends:[]}"   -> [kind |-> "dict", value |-> [trends |-> <<>>]]
          [] doc = "{}"            -> [kind |-> "dict", value |-> <<>>]
          [] doc = "[]"            -> [kind |-> "list", value |-> <<>>]]

\* lines 146-152: strip the code fences, parse, data.get("trends", []);
\* every exception of these lines gives []
ParseTrends(response_text) ==
    IF response_text = NoneValue THEN <<>>
    ELSE LET clean_text == Strip(Remove(Remove(response_text.value, FenceJson), Fence))
         IN IF Len(clean_text) /= 1 \/ clean_text[1] \notin DOMAIN JsonDocuments
            THEN <<>>
            ELSE LET data == JsonDocuments[clean_text[1]]
                 IN IF data.kind /= "dict" THEN <<>>
                    ELSE Get(data.value, "trends", <<>>)

\* search_travel_content is not reached when get_trending_hashtags raised
NotCalled == [not_called |-> TRUE]

\* _fetch_social_data (lines 80-89): both tools are called in turn; an
\* exception of either gives ([], [])
_fetch_social_data(hashtags, posts) ==
    IF IsException(hashtags) \/ IsException(posts)
    THEN [raw_trends |-> <<>>, formatted_posts |-> <<>>]
    ELSE [raw_trends |-> hashtags.items, formatted_posts |-> posts.items]

\* inputs of one invocation
TrendContexts == { <<>>, << [destination |-> <<"SoHo">>] >> }
HashtagOutcomes == { [items |-> <<>>], [items |-> <<"#tag">>], [exception |-> "boom"] }
PostOutcomes == { [items |-> <<>>], [items |-> <<"post">>], [exception |-> "boom"] }
Clients == { None, "client" }

\* what the Gemini API does on the successive calls of one generate_response
BroadenApi ==
    { << [text |-> <<" ", "'", "France", "'", "\n">>] >>,
      << [text |-> <<"Europe">>] >>,
      << NoText >>,
      << [error |-> "500"] >>,
      << [error |-> "429"], [text |-> <<"Europe">>] >>,
      << [error |-> "429"], [error |-> "429"], [error |-> "429"], [error |-> "429"] >> }

SynthApi ==
    { << [text |-> <<FenceJson, "\n", "{trends:[t1]}", "\n", Fence>>] >>,
      << [text |-> <<"{trends:[]}">>] >>,
      << [text |-> <<"{}">>] >>,
      << [text |-> <<"[]">>] >>,
      << [text |-> <<"Sorry">>] >>,
      << NoText >>,
      << [error |-> "500"] >>,
      << [error |-> "429"], [text |-> <<"{trends:[t1]}">>] >>,
      << [error |-> "429"], [error |-> "429"], [error |-> "429"], [error |-> "429"] >> }

\* variant: the status does not distinguish a run that found trends
TrendReturn_partial(trends, count, location) ==
    /\ ts_result' = << [agent |-> "trend_spotter",
                        trends |-> trends,
                        raw_count |-> count,
                        status |-> "partial_success",
                        searched_location |-> location] >>
    /\ ts_pc' = "returned"

\* lines 72-78: the dictionary async_process returns
TrendReturn(trends, count, location) ==
    /\ ts_result' = << [agent |-> "trend_spotter",
                        trends |-> trends,
                        raw_count |-> count,
                        status |-> IF trends /= <<>> THEN "success" ELSE "partial_success",
                        searched_location |-> location] >>
    /\ ts_pc' = "returned"

\* variant: the loop asks for a broader query once more after attempt 3
BroadenOrReturn_extra(trends, count) ==
    IF attempt >= 4
    THEN /\ TrendReturn(trends, count, current_location)
         /\ UNCHANGED attempt
    ELSE /\ ts_pc' = "broaden"
         /\ UNCHANGED <<attempt, ts_result>>

\* variant: an invocation that used all its attempts reports an error
BroadenOrReturn_error(trends, count) ==
    IF attempt >= 3
    THEN /\ ts_result' = << [agent |-> "trend_spotter",
                             trends |-> trends,
                             raw_count |-> count,
                             status |-> "error",
                             searched_location |-> current_location] >>
         /\ ts_pc' = "returned"
         /\ UNCHANGED attempt
    ELSE /\ ts_pc' = "broaden"
         /\ UNCHANGED <<attempt, ts_result>>

\* _generate_broadening_query up to its await (lines 93-107), followed by
\* the loop test when it returns at once: on attempt 3 the location is
\* returned as it is, without a call of the model
BroadenOrReturn(trends, count) ==
    IF attempt >= 3
    THEN /\ IF attempt < max_retries_trend
            THEN /\ attempt' = attempt + 1
                 /\ ts_pc' = "fetch"
                 /\ UNCHANGED ts_result
            ELSE /\ TrendReturn(trends, count, current_location)
                 /\ UNCHANGED attempt
    ELSE /\ ts_pc' = "broaden"
         /\ UNCHANGED <<attempt, ts_result>>

\* TrendSpotterAgent() and the call of async_process (lines 28-49)
TrendStart(client, context) ==
    /\ ts_pc = "idle"
    /\ ts_client' = client
    /\ LET ctx == IF context = <<>> THEN <<>> ELSE context[1] IN
       /\ original_location' = Get(ctx, "destination", <<"Global">>)
       /\ current_location' = Get(ctx, "destination", <<"Global">>)
    /\ attempt' = 1
    /\ final_trends' = <<>>
    /\ raw_count' = 0
    /\ ts_pc' = "fetch"
    /\ UNCHANGED <<ts_result, fetch_log, llm_log>>
    /\ UNCHANGED <<configVars, taskVars, dbVars, wfVars, next_uuid, pollVars, extVars>>

\* lines 52-59: fetch, count the posts, broaden when there are none
TrendFetch(hashtags, posts) ==
    /\ ts_pc = "fetch"
    /\ IsException(hashtags) <=> posts = NotCalled
    /\ LET data == _fetch_social_data(hashtags, posts)
           count == Len(data.formatted_posts)
       IN /\ raw_count' = count
          /\ fetch_log' = Append(fetch_log, [query |-> current_location,
                                             attempt |-> attempt,
                                             hashtags |-> hashtags,
                                             posts |-> posts])
          /\ IF count = 0
             THEN BroadenOrReturn(final_trends, count)
             ELSE /\ ts_pc' = "synth"
                  /\ UNCHANGED <<attempt, ts_result>>
    /\ UNCHANGED <<ts_client, original_location, current_location, final_trends, llm_log>>
    /\ UNCHANGED <<configVars, taskVars, dbVars, wfVars, next_uuid, pollVars, extVars>>

\* lines 107-110 and the loop head: the model answers the broadening prompt
TrendBroaden(api) ==
    /\ ts_pc = "broaden"
    /\ LET r == generate_response(ts_client, api)
           raised == IsException(r) \/ r = NoneValue
       IN /\ llm_log' = Append(llm_log, [purpose |-> "broaden", attempt |-> attempt,
                                         raised |-> raised,
                                         result |-> IF raised THEN <<>>
                                                    ELSE CleanLocation(r.value)])
          /\ IF raised
             THEN /\ ts_pc' = "raised"
                  /\ UNCHANGED <<current_location, attempt>>
             ELSE /\ current_location' = CleanLocation(r.value)
                  /\ attempt' = attempt + 1
                  /\ ts_pc' = "fetch"
    /\ UNCHANGED <<ts_client, original_location, final_trends, raw_count, ts_result,
                   fetch_log>>
    /\ UNCHANGED <<configVars, taskVars, dbVars, wfVars, next_uuid, pollVars, extVars>>

\* lines 62-70 and 144-152: the model answers the synthesis prompt
TrendSynth(api) ==
    /\ ts_pc = "synth"
    /\ LET r == generate_response(ts_client, api)
           raised == IsException(r)
       IN /\ llm_log' = Append(llm_log, [purpose |-> "synth", attempt |-> attempt,
                                         raised |-> raised,
                                         result |-> IF raised THEN <<>>
                                                    ELSE ParseTrends(r)])
          /\ IF raised
             THEN /\ ts_pc' = "raised"
                  /\ UNCHANGED <<final_trends, attempt, ts_result>>
             ELSE LET trends == ParseTrends(r)
                  IN /\ final_trends' = trends
                     /\ IF trends /= <<>>
                        THEN /\ TrendReturn(trends, raw_count, current_location)
                             /\ UNCHANGED attempt
                        ELSE BroadenOrReturn(trends, raw_count)
    /\ UNCHANGED <<ts_client, original_location, current_location, raw_count, fetch_log>>
    /\ UNCHANGED <<configVars, taskVars, dbVars, wfVars, next_uuid, pollVars, extVars>>

async_process ==
    \/ \E client \in Clients, context \in TrendContexts : TrendStart(client, context)
    \/ \E hashtags \in HashtagOutcomes, posts \in PostOutcomes \cup {NotCalled} :
          TrendFetch(hashtags, posts)
    \/ \E api \in BroadenApi : TrendBroaden(api)
    \/ \E api \in SynthApi : TrendSynth(api)

\* the agent on its own, in a process that runs no media task
InitTrendAgent == Init /\ ~USE_CELERY /\ REDIS_URL = None

SpecTrend == InitTrendAgent /\ [][async_process]_vars

\* ------------------------------------------------------------------------
\* run_workflow's research phase with the three providers main.py imports
\* (main.py, lines 37-39 and 291-299; agents/pathfinder.py,
\* agents/trend_spotter.py, agents/concierge.py)
\* ------------------------------------------------------------------------
\* the destinations a request context carries in this phase
ResearchDestinations == { None, "Tokyo", "Berlin Mitte", "Nice, France" }

\* the characters of a destination name
Spelling(name) ==
    CASE name = "Tokyo" -> <<"T","o","k","y","o">>
      [] name = "Paris" -> <<"P","a","r","i","s">>
      [] name = "Berlin Mitte" -> <<"B","e","r","l","i","n"," ","M","i","t","t","e">>
      [] name = "Nice, France" -> <<"N","i","c","e",","," ","F","r","a","n","c","e">>

\* lines 294-296: the query string each provider is called with
QueryText(p, name) ==
    IF p = "trend_spotter" THEN <<"t","r","e","n","d","s"," ","i","n"," ">> \o Spelling(name) ELSE Spelling(name)

\* what the imported profiler returns: TravelerProfile (agents/profiler.py,
\* lines 40-48) has no destination
ImportedProfilerResults == { r \in ProfilerResults : r.profile.destination = None }

\* str.upper() on one character
UpperChar(c) ==
    IF \E i \in 1..26 : LowerAlpha[i] = c
    THEN UpperAlpha[CHOOSE i \in 1..26 : LowerAlpha[i] = c]
    ELSE c

\* a cased character
IsCased(c) == \E i \in 1..26 : LowerAlpha[i] = c \/ UpperAlpha[i] = c

\* str.title(): a cased character is upper case at the start of a run of
\* cased characters and lower case inside it
Title(text) ==
    [i \in 1..Len(text) |->
        IF i > 1 /\ IsCased(text[i - 1]) THEN LowerChar(text[i]) ELSE UpperChar(text[i])]

\* str.find(pattern): the 0-based index of the first occurrence, else -1
Find(text, pattern) ==
    LET hits == { i \in 0..(Len(text) - Len(pattern)) :
                     SubSeq(text, i + 1, i + Len(pattern)) = pattern }
    IN  IF hits = {} THEN -1 ELSE CHOOSE i \in hits : \A j \in hits : i <= j

\* text.split(sep)[0] for a one-character separator
Before(text, sep) ==
    LET i == Find(text, <<sep>>) IN IF i = -1 THEN text ELSE SubSeq(text, 1, i)

\* the loop the three providers share: for each indicator, in order, that
\* occurs in the query, the text after its first occurrence is stripped,
\* cut at the first sep1 and then at the first sep2 and stripped again;
\* the first such text longer than min_len is returned in title case,
\* None (<<>>) when there is none
RECURSIVE AfterIndicator(_, _, _, _, _)
AfterIndicator(query, indicators, sep1, sep2, min_len) ==
    IF indicators = <<>> THEN <<>>
    ELSE LET idx == Find(query, indicators[1])
             remaining == Strip(SubSeq(query, idx + Len(indicators[1]) + 1, Len(query)))
             place == Strip(Before(Before(remaining, sep1), sep2))
         IN  IF idx /= -1 /\ Len(place) > min_len
             THEN << Title(place) >>
             ELSE AfterIndicator(query, Tail(indicators), sep1, sep2, min_len)

\* PathfinderAgent._extract_query_params (agents/pathfinder.py, lines
\* 199-212), called with query.lower(): params["location"]
_extract_query_params(query) ==
    AfterIndicator(query, << <<"i","n"," ">>, <<"n","e","a","r"," ">>, <<"a","r","o","u","n","d"," ">>, <<"t","o"," ">>, <<"f","r","o","m"," ">> >>, ",", ".", 0)

\* TrendSpotterAgent._extract_destination (agents/trend_spotter.py, lines
\* 166-199) for a context without the key "destinations"
_extract_destination(query) ==
    AfterIndicator(query, << <<"i","n"," ">>, <<"f","o","r"," ">>, <<"a","b","o","u","t"," ">>, <<"t","r","e","n","d","s"," ","i","n"," ">>, <<"t","r","e","n","d","i","n","g"," ","i","n"," ">>, <<"p","o","p","u","l","a","r"," ","i","n"," ">>, <<"v","i","s","i","t","i","n","g"," ">> >>,
                   "?", ",", 1)

\* ConciergeAgent._extract_location (agents/concierge.py, lines 170-201)
\* for a context without the key "destinations"
_extract_location(query) ==
    AfterIndicator(query, << <<"n","e","a","r"," ">>, <<"i","n"," ">>, <<"a","r","o","u","n","d"," ">>, <<"a","t"," ">>, <<"b","y"," ">>, <<"c","l","o","s","e"," ","t","o"," ">> >>, ",", "?", 0)

\* the dictionary a provider returns when called with this query, as far
\* as the orchestrator and the place it worked on go (pathfinder.py, lines
\* 114-145; trend_spotter.py, lines 86-113; concierge.py, lines 101-139:
\* every search of the concierge returns [] without a location), or the
\* exception it raises
ProviderAnswers(p, query) ==
    { [exception |-> "boom"] } \cup
    CASE p = "pathfinder" ->
            { [results |-> <<"dest1">>,
               query_params |-> [location |-> _extract_query_params(Lower(query))]] }
      [] p = "trend_spotter" ->
            { [trends |-> <<"trend1">>,
               destination |-> _extract_destination(Lower(query))] }
      [] p = "concierge" ->
            { [results |-> IF _extract_location(Lower(query)) = <<>>
                           THEN <<>> ELSE <<"hotel1">>,
               location |-> _extract_location(Lower(query))] }

research_phase ==
    \/ \E message \in Messages, cd \in ResearchDestinations : StartRequest(message, cd)
    \/ \E result \in ImportedProfilerResults : ProfilingReturns(result)
    \/ ProfilingRaises
    \/ /\ pc = "researching"
       /\ \E p \in Providers :
             \E outcome \in ProviderAnswers(p, QueryText(p, destination)) :
                 ProviderFinishes(p, outcome)
    \/ GatherReturns

SpecResearch == InitTrendAgent /\ [][research_phase]_vars

\* ------------------------------------------------------------------------
\* agents/base.py: generate_response, one model invocation at a time
\* ------------------------------------------------------------------------
\* what one invocation of generate_content can give
ApiOutcomes ==
    { [text |-> <<"ok">>], NoText, [error |-> "429"], [error |-> "RESOURCE_EXHAUSTED"],
      [error |-> "500"] }

\* variant: the exception is re-raised one rate limit later
GiveUp_late(n) == n > max_retries_llm + 1

\* line 103: `if retries > max_retries: raise`
GiveUp(n) == n > max_retries_llm

\* lines 69-76: the call up to the loop; without a client it returns at once
GenerateCall(client) ==
    /\ gen_pc \in {"idle", "returned", "raised"}
    /\ gen_no < MaxRequests
    /\ gen_no' = gen_no + 1
    /\ gen_client' = client
    /\ gen_api' = <<>>
    /\ gen_retries' = 0
    /\ IF client = None
       THEN /\ gen_result' = << [value |-> ClientMissing] >>
            /\ gen_pc' = "returned"
       ELSE /\ gen_result' = <<>>
            /\ gen_pc' = "invoke"
    /\ UNCHANGED <<configVars, taskVars, dbVars, wfVars, next_uuid, pollVars, trendVars,
                   profVars, chatVars, optVars, videoVars, rqVars>>

\* lines 79-113: one iteration of the while loop: the invocation and what
\* follows its answer (return, re-raise, or sleep and go round again)
GenerateInvoke(outcome) ==
    /\ gen_pc = "invoke"
    /\ gen_retries <= max_retries_llm
    /\ gen_api' = Append(gen_api, outcome)
    /\ IF "text" \in DOMAIN outcome
       THEN /\ gen_result' = << [value |-> outcome.text] >>
            /\ gen_pc' = "returned"
            /\ UNCHANGED gen_retries
       ELSE IF outcome = NoText
       THEN /\ gen_result' = << NoneValue >>
            /\ gen_pc' = "returned"
            /\ UNCHANGED gen_retries
       ELSE IF RateLimited(outcome.error)
       THEN /\ gen_retries' = gen_retries + 1
            /\ IF GiveUp(gen_retries + 1)
               THEN /\ gen_result' = << [exception |-> outcome.error] >>
                    /\ gen_pc' = "raised"
               ELSE /\ gen_pc' = "invoke"
                    /\ UNCHANGED gen_result
       ELSE /\ gen_result' = << [value |-> <<>>] >>
            /\ gen_pc' = "returned"
            /\ UNCHANGED gen_retries
    /\ UNCHANGED <<gen_client, gen_no>>
    /\ UNCHANGED <<configVars, taskVars, dbVars, wfVars, next_uuid, pollVars, trendVars,
                   profVars, chatVars, optVars, videoVars, rqVars>>

generate_response_steps ==
    \/ \E client \in Clients : GenerateCall(client)
    \/ \E outcome \in ApiOutcomes : GenerateInvoke(outcome)

SpecGenerate == InitTrendAgent /\ [][generate_response_steps]_vars

\* asyncio.to_thread and asyncio.sleep return: the loop goes on
FairSpecGenerate ==
    SpecGenerate /\ WF_vars(\E outcome \in ApiOutcomes : GenerateInvoke(outcome))

\* ------------------------------------------------------------------------
\* Several background tasks at once, with the rows clients save for them
\* (tasks.py, lines 87-134 and 163-212; main.py, lines 319-324, 664-689)
\* ------------------------------------------------------------------------
NextFrame ==
    \/ Enqueue
    \/ \E t \in TaskIds : generate_media_background(t)
    \/ \E t \in TaskIds : generate_media_task(t)
    \/ Register
    \/ save_itinerary
    \/ delete_account

SpecFrame == Init /\ [][NextFrame]_vars

\* ------------------------------------------------------------------------
\* tools/creative_tools.py: CreativeTools.generate_video, called by
\* CreativeDirectorAgent.async_process inside a background task.
\* Times are in seconds.
\* ------------------------------------------------------------------------
\* the 5-minute cap of the polling loop
max_poll_seconds == 300

\* asyncio.sleep(10) between two polls
poll_sleep == 10

\* the time one operations.get call takes
GetDurations == {140, 290}

\* what generate_videos / operations.get give: an operation that is done,
\* one that is not, or an exception
OperationOutcomes == {"done", "pending", "raises"}

\* variant: the cap is checked one poll late
TimedOut_late(elapsed) == elapsed > max_poll_seconds + poll_sleep + 140

\* line 133: time.time() - poll_start > max_poll_seconds
TimedOut(elapsed) == elapsed > max_poll_seconds

\* lines 60-130: no client, or generate_videos raises: "" at once;
\* otherwise the operation is held and polling begins (poll_start)
VideoStart(t, has_client, outcome) ==
    /\ bg_pc[t] = "work"
    /\ video[t].pc = "idle"
    /\ video' = [video EXCEPT ![t] =
           IF ~has_client \/ outcome = "raises"
           THEN [@ EXCEPT !.pc = "returned", !.url = ""]
           ELSE [@ EXCEPT !.pc = "loop", !.done = (outcome = "done"), !.elapsed = 0]]
    /\ UNCHANGED <<configVars, taskVars, dbVars, wfVars, next_uuid, pollVars, trendVars,
                   profVars, chatVars, optVars, genVars, rqVars>>

\* lines 132-141: one evaluation of the loop head and, when the loop goes
\* on, one sleep and one operations.get
VideoPoll(t, duration, outcome) ==
    /\ video[t].pc = "loop"
    /\ video' = [video EXCEPT ![t] =
           IF @.done
           THEN [@ EXCEPT !.pc = "save"]
           ELSE IF TimedOut(@.elapsed)
           THEN [@ EXCEPT !.pc = "returned", !.url = "", !.timed_out = TRUE]
           ELSE IF outcome = "raises"
           THEN [@ EXCEPT !.pc = "returned", !.url = "",
                          !.elapsed = @ + poll_sleep + duration]
           ELSE [@ EXCEPT !.done = (outcome = "done"),
                          !.elapsed = @ + poll_sleep + duration]]
    /\ UNCHANGED <<configVars, taskVars, dbVars, wfVars, next_uuid, pollVars, trendVars,
                   profVars, chatVars, optVars, genVars, rqVars>>

\* lines 143-158: the video is saved, or the operation carries none
VideoSave(t, has_video) ==
    /\ video[t].pc = "save"
    /\ video' = [video EXCEPT ![t] =
           [@ EXCEPT !.pc = "returned", !.url = IF has_video THEN "v1" ELSE ""]]
    /\ UNCHANGED <<configVars, taskVars, dbVars, wfVars, next_uuid, pollVars, trendVars,
                   profVars, chatVars, optVars, genVars, rqVars>>

generate_video(t) ==
    \/ \E has_client \in BOOLEAN, outcome \in OperationOutcomes :
           VideoStart(t, has_client, outcome)
    \/ \E duration \in GetDurations, outcome \in OperationOutcomes :
           VideoPoll(t, duration, outcome)
    \/ \E has_video \in BOOLEAN : VideoSave(t, has_video)

\* creative_director.py, lines 177 and 193-200: what the gathered
\* generate_image call gives for the trip poster: its url, or "" when the
\* call raised or returned nothing. The posters are gathered before
\* generate_video is called and enter it only as its input image.
PosterUrls == {"p1", ""}

\* creative_director.py, lines 218-239: the result carries the trip
\* poster's url and whatever generate_video returned, with status "success"
DirectorResult(t, trip_poster_url) ==
    [trip_poster_url |-> trip_poster_url, video_url |-> video[t].url]

DirectorReturns(t) ==
    /\ video[t].pc = "returned"
    /\ \E trip_poster_url \in PosterUrls :
          \/ AioWorkReturns(t, DirectorResult(t, trip_poster_url))
          \/ CeleryWorkReturns(t, DirectorResult(t, trip_poster_url))

\* the media work raises before it reaches the video
DirectorRaises(t) ==
    /\ video[t].pc = "idle"
    /\ \E err \in WorkErrors : AioWorkRaises(t, err) \/ CeleryWorkRaises(t, err)

\* one background task with its media work followed step by step
media_task(t) ==
    \/ AioStart(t)
    \/ CeleryStart(t)
    \/ generate_video(t)
    \/ DirectorReturns(t)
    \/ DirectorRaises(t)
    \/ AioSaveCompleted(t)
    \/ CelerySaveCompleted(t)
    \/ \E db_raises \in BOOLEAN : AioDbUpdate(t, db_raises)
    \/ \E db_raises \in BOOLEAN : CeleryDbUpdate(t, db_raises)
    \/ AioSaveFailed(t)
    \/ CelerySaveFailed(t)

NextVideo ==
    \/ EnqueuePolled
    \/ \E t \in TaskIds : media_task(t)

SpecVideo == Init /\ [][NextVideo]_vars

\* the event loop and the worker keep running the tasks they hold, and
\* every sleep and every operations.get returns
FairSpecVideo == SpecVideo /\ \A t \in TaskIds : WF_vars(media_task(t))

\* ------------------------------------------------------------------------
\* tools/amadeus_tools.py: RequestQueue.wait_turn and its callers.
\* Times are clock ticks; datetime.now() reads the clock.
\* ------------------------------------------------------------------------
\* RATE_LIMIT_PER_SECOND
rate_limit == 2

\* the `1` second of lines 53 and 62, in ticks
TicksPerSecond == 3

\* number of wait_turn calls followed
MaxCalls == 4

\* the time up to which new calls are made
MaxClock == 5

\* lines 53-54: timestamps older than one second are dropped from the left
RECURSIVE Purge(_, _)
Purge(reqs, now) ==
    IF reqs /= <<>> /\ now - Head(reqs) > TicksPerSecond
    THEN Purge(Tail(reqs), now)
    ELSE reqs

\* the calls that have not returned yet
InFlight == { c \in Callers : rq_pc[c] /= "idle" }

\* the time at which the sleep of line 64 is over
WakeTime(c) == rq_now[c] + (TicksPerSecond - (rq_now[c] - Head(requests)))

\* time passes, for as long as calls are made or a caller sleeps
Tick ==
    /\ \/ clock < MaxClock
       \/ \E c \in Callers : rq_pc[c] = "sleep" /\ clock < WakeTime(c)
    /\ clock' = clock + 1
    /\ UNCHANGED <<requests, lock, rq_pc, rq_now, admitted>>
    /\ UNCHANGED <<configVars, taskVars, dbVars, wfVars, next_uuid, pollVars, trendVars,
                   profVars, chatVars, optVars, genVars, videoVars>>

\* line 171 and line 50: a caller awaits wait_turn and asks for the lock
\* (asyncio.Lock serves its waiters in the order they asked)
WaitTurnCall(c) ==
    /\ rq_pc[c] = "idle"
    /\ clock < MaxClock
    /\ Len(admitted) + Cardinality(InFlight) < MaxCalls
    /\ lock' = Append(lock, c)
    /\ rq_pc' = [rq_pc EXCEPT ![c] = "acquire"]
    /\ UNCHANGED <<clock, requests, rq_now, admitted>>
    /\ UNCHANGED <<configVars, taskVars, dbVars, wfVars, next_uuid, pollVars, trendVars,
                   profVars, chatVars, optVars, genVars, videoVars>>

\* lines 50-69 up to the sleep: with the lock held, purge, then record the
\* request and return True, or sleep, or return False; a caller to whom
\* wait_turn has returned goes on with its request
WaitTurnEnter(c) ==
    /\ rq_pc[c] = "acquire"
    /\ lock /= <<>> /\ Head(lock) = c
    /\ LET now == clock
           kept == Purge(requests, now)
       IN /\ rq_now' = [rq_now EXCEPT ![c] = now]
          /\ IF Len(kept) < rate_limit
             THEN /\ requests' = Append(kept, now)
                  /\ admitted' = Append(admitted, now)
                  /\ lock' = Tail(lock)
                  /\ rq_pc' = [rq_pc EXCEPT ![c] = "idle"]
             ELSE IF TicksPerSecond - (now - Head(kept)) > 0
             THEN /\ requests' = kept
                  /\ rq_pc' = [rq_pc EXCEPT ![c] = "sleep"]
                  /\ UNCHANGED <<admitted, lock>>
             ELSE /\ requests' = kept
                  /\ admitted' = Append(admitted, now)
                  /\ lock' = Tail(lock)
                  /\ rq_pc' = [rq_pc EXCEPT ![c] = "idle"]
    /\ UNCHANGED clock
    /\ UNCHANGED <<configVars, taskVars, dbVars, wfVars, next_uuid, pollVars, trendVars,
                   profVars, chatVars, optVars, genVars, videoVars>>

\* lines 64-67: the sleep is over; the oldest timestamp is replaced by the
\* current time and wait_turn returns True
WaitTurnWake(c) ==
    /\ rq_pc[c] = "sleep"
    /\ clock >= WakeTime(c)
    /\ requests' = Append(Tail(requests), clock)
    /\ admitted' = Append(admitted, clock)
    /\ lock' = Tail(lock)
    /\ rq_pc' = [rq_pc EXCEPT ![c] = "idle"]
    /\ UNCHANGED <<clock, rq_now>>
    /\ UNCHANGED <<configVars, taskVars, dbVars, wfVars, next_uuid, pollVars, trendVars,
                   profVars, chatVars, optVars, genVars, videoVars>>

wait_turn(c) ==
    \/ WaitTurnCall(c)
    \/ WaitTurnEnter(c)
    \/ WaitTurnWake(c)

NextQueue ==
    \/ Tick
    \/ \E c \in Callers : wait_turn(c)

SpecQueue == InitTrendAgent /\ [][NextQueue]_vars

\* time passes, the event loop resumes the coroutine that can take the
\* lock, and every sleep ends
FairSpecQueue ==
    /\ SpecQueue
    /\ WF_vars(Tick)
    /\ \A c \in Callers : WF_vars(WaitTurnEnter(c)) /\ WF_vars(WaitTurnWake(c))

\* ------------------------------------------------------------------------
\* backend/agents/profiler.py: ProfilerAgent
\* A Python value of a profile field is List(<<...>>) or Scalar(v).
\* ------------------------------------------------------------------------
\* number of async_process calls followed
MaxQueries == 3

List(s) == [list |-> s]
Scalar(v) == [scalar |-> v]

\* isinstance(x, list)
IsList(x) == "list" \in DOMAIN x

\* TravelerProfile() (lines 18-31); to_dict gives the same fields
TravelerProfile ==
    [dietary_restrictions |-> List(<<>>),
     religious_requirements |-> List(<<>>),
     allergies |-> List(<<>>),
     budget_level |-> Scalar("moderate"),
     travel_style |-> Scalar("balanced"),
     accessibility_needs |-> List(<<>>),
     group_size |-> Scalar(1),
     interests |-> List(<<>>),
     language_preferences |-> List(<<"English">>)]

\* set(l)
Elems(l) == { l[i] : i \in 1..Len(l) }

\* list(s) of a set s: its elements once each, in an order that the hash
\* seed of the process decides
RECURSIVE ListOfSet(_)
ListOfSet(S) ==
    IF S = {} THEN { <<>> }
    ELSE UNION { { <<x>> \o l : l \in ListOfSet(S \ {x}) } : x \in S }

\* variant: the lists are concatenated, duplicates and all
MergedValues_concat(current_attr, value) ==
    IF IsList(current_attr) /\ IsList(value)
    THEN { List(current_attr.list \o value.list) }
    ELSE { value }

\* lines 119-127: the values the attribute can get
MergedValues(current_attr, value) ==
    IF IsList(current_attr) /\ IsList(value)
    THEN { List(merged) : merged \in ListOfSet(Elems(current_attr.list \o value.list)) }
    ELSE { value }

\* the loop of _update_profile over the keys that are attributes
RECURSIVE UpdateKeys(_, _, _)
UpdateKeys(profiles, new_data, keys) ==
    IF keys = {} THEN profiles
    ELSE LET key == CHOOSE k \in keys : TRUE
         IN UpdateKeys(
              UNION { { [p EXCEPT ![key] = m] : m \in MergedValues(p[key], new_data[key]) }
                      : p \in profiles },
              new_data, keys \ {key})

\* _update_profile(new_data) (lines 115-127): the profiles it can leave in
\* self.current_profile
_update_profile(profile, new_data) ==
    UpdateKeys({profile}, new_data, DOMAIN new_data \cap DOMAIN profile)

\* json.loads on the JSON documents the inputs contain
ProfilerDocuments ==
    [doc \in {"{profile:{allergies:[peanut]},changes:[allergies],follow_up_questions:[q1]}",
              "{profile:{allergies:[egg,peanut],budget_level:luxury,destination:Paris}}",
              "{profile:{allergies:none}}",
              "{}", "[]"} |->
        CASE doc = "{profile:{allergies:[peanut]},changes:[allergies],follow_up_questions:[q1]}"
                -> [kind |-> "dict",
                    value |-> [profile |-> [allergies |-> List(<<"peanut">>)],
                               changes |-> <<"allergies">>,
                               follow_up_questions |-> <<"q1">>]]
          [] doc = "{profile:{allergies:[egg,peanut],budget_level:luxury,destination:Paris}}"
                -> [kind |-> "dict",
                    value |-> [profile |-> [allergies |-> List(<<"egg", "peanut">>),
                                            budget_level |-> Scalar("luxury"),
                                            destination |-> Scalar("Paris")]]]
          [] doc = "{profile:{allergies:none}}"
                -> [kind |-> "dict",
                    value |-> [profile |-> [allergies |-> Scalar("none")]]]
          [] doc = "{}" -> [kind |-> "dict", value |-> <<>>]
          [] doc = "[]" -> [kind |-> "list", value |-> <<>>]]

\* inputs of one async_process call
ProfilerQueries ==
    { <<"h", "i">>, <<" ", "H", "E", "Y", "?", " ">>, <<"n", "u", "t", "s">> }
ProfilerContexts ==
    { <<>>, << [profile |-> [allergies |-> List(<<"soy">>)]] >> }

\* what the Gemini API does on the successive calls of one generate_response
ProfilerApi ==
    { << [text |-> <<FenceJson, "\n",
                     "{profile:{allergies:[peanut]},changes:[allergies],follow_up_questions:[q1]}",
                     "\n", Fence>>] >>,
      << [text |-> <<"{profile:{allergies:[egg,peanut],budget_level:luxury,destination:Paris}}">>] >>,
      << [text |-> <<"{profile:{allergies:none}}">>] >>,
      << [text |-> <<"{}">>] >>,
      << [text |-> <<"[]">>] >>,
      << [text |-> <<"Sorry">>] >>,
      << NoText >>,
      << [error |-> "500"] >>,
      << [error |-> "429"], [error |-> "429"], [error |-> "429"], [error |-> "429"] >> }

\* the field values a dictionary of profile fields holds, as (field, value)
\* pairs; group_size, the one numeric field, is left out
Mentions(d) ==
    UNION { IF IsList(d[k]) THEN { <<k, e>> : e \in Elems(d[k].list) }
            ELSE { <<k, d[k].scalar>> }
            : k \in DOMAIN d \ {"group_size"} }

\* lines 87-90 and 104: what the try block makes of response_text
ParseProfile(response_text) ==
    IF response_text = NoneValue THEN [exception |-> "AttributeError"]
    ELSE LET clean_text == Strip(Remove(Remove(response_text.value, FenceJson), Fence))
         IN IF Len(clean_text) /= 1 \/ clean_text[1] \notin DOMAIN ProfilerDocuments
            THEN [exception |-> "JSONDecodeError"]
            ELSE LET data == ProfilerDocuments[clean_text[1]]
                 IN IF data.kind /= "dict" THEN [exception |-> "AttributeError"]
                    ELSE [data |-> data.value]

\* lines 107-113: the dictionary returned when json.loads fails
ProfilerFallback(profile) ==
    [agent |-> "profiler",
     profile |-> profile,
     extracted_preferences |-> <<>>,
     follow_up_questions |-> <<"Could you provide more details about your trip?">>,
     status |-> "error_parsing_llm"]

\* lines 96-102: the dictionary returned after the update
ProfilerUpdated(profile, data) ==
    [agent |-> "profiler",
     profile |-> profile,
     extracted_preferences |-> Get(data, "changes", <<>>),
     follow_up_questions |-> Get(data, "follow_up_questions", <<>>),
     status |-> "profile_updated"]

\* ProfilerAgent() (lines 42-45 and base.py 35-45)
ProfilerAgentInit(client) ==
    /\ prof_client = "unborn"
    /\ prof_client' = client
    /\ current_profile' = TravelerProfile
    /\ UNCHANGED <<prof_pc, prof_call, prof_result, prof_started, own>>
    /\ UNCHANGED <<configVars, taskVars, dbVars, wfVars, next_uuid, pollVars, trendVars,
                   chatVars, optVars, genVars,
                   videoVars, rqVars>>

\* async_process up to its await (lines 47-84): the prompt is built and
\* generate_response is called, whatever the query is
ProfilerCall(c, query, context) ==
    /\ prof_client /= "unborn"
    /\ prof_pc[c] /= "awaiting"
    /\ prof_started < MaxQueries
    /\ prof_started' = prof_started + 1
    /\ prof_pc' = [prof_pc EXCEPT ![c] = "awaiting"]
    /\ prof_call' = [prof_call EXCEPT ![c] = << [query |-> query,
                                                 context |-> context,
                                                 asked |-> TRUE,
                                                 answer |-> NotCalled,
                                                 new_profile_data |-> <<>>] >>]
    /\ prof_result' = [prof_result EXCEPT ![c] = <<>>]
    /\ own' = [own EXCEPT ![c] =
                  @ \cup (IF context = <<>> THEN {} ELSE Mentions(context[1].profile))]
    /\ UNCHANGED <<prof_client, current_profile>>
    /\ UNCHANGED <<configVars, taskVars, dbVars, wfVars, next_uuid, pollVars, trendVars,
                   chatVars, optVars, genVars,
                   videoVars, rqVars>>

\* async_process from the answer of the model on (lines 84-113)
ProfilerAnswer(c, api) ==
    /\ prof_pc[c] = "awaiting"
    /\ LET response_text == generate_response(prof_client, api)
           parsed == IF IsException(response_text) THEN response_text
                     ELSE ParseProfile(response_text)
           new_profile_data == IF IsException(parsed) THEN <<>>
                               ELSE Get(parsed.data, "profile", <<>>)
       IN /\ prof_call' = [prof_call EXCEPT ![c] =
                              << [prof_call[c][1] EXCEPT
                                     !.answer = response_text,
                                     !.new_profile_data = new_profile_data] >>]
          /\ IF IsException(parsed) /\ parsed.exception = "JSONDecodeError"
             THEN /\ prof_pc' = [prof_pc EXCEPT ![c] = "returned"]
                  /\ prof_result' = [prof_result EXCEPT ![c] =
                                        << ProfilerFallback(current_profile) >>]
                  /\ UNCHANGED <<current_profile, own>>
             ELSE IF IsException(parsed)
             THEN /\ prof_pc' = [prof_pc EXCEPT ![c] = "raised"]
                  /\ prof_result' = [prof_result EXCEPT ![c] = << parsed >>]
                  /\ UNCHANGED <<current_profile, own>>
             ELSE /\ current_profile' \in _update_profile(current_profile, new_profile_data)
                  /\ prof_pc' = [prof_pc EXCEPT ![c] = "returned"]
                  /\ prof_result' = [prof_result EXCEPT ![c] =
                                        << ProfilerUpdated(current_profile', parsed.data) >>]
                  /\ own' = [own EXCEPT ![c] = @ \cup Mentions(new_profile_data)]
    /\ UNCHANGED <<prof_client, prof_started>>
    /\ UNCHANGED <<configVars, taskVars, dbVars, wfVars, next_uuid, pollVars, trendVars,
                   chatVars, optVars, genVars,
                   videoVars, rqVars>>

\* the agent and the calls its callers make, in any interleaving
profiler_async_process ==
    \/ \E client \in Clients : ProfilerAgentInit(client)
    \/ \E c \in Callers, query \in ProfilerQueries, context \in ProfilerContexts :
          ProfilerCall(c, query, context)
    \/ \E c \in Callers, api \in ProfilerApi : ProfilerAnswer(c, api)

\* the agent on its own, in a process that runs no media task
SpecProfiler == InitTrendAgent /\ [][profiler_async_process]_vars

\* ------------------------------------------------------------------------
\* Properties of run_workflow
\* ------------------------------------------------------------------------
\* position of the first occurrence of an event in phase_log, 0 if absent
Idx(e) ==
    IF \E i \in 1..Len(phase_log) : phase_log[i] = e
    THEN CHOOSE i \in 1..Len(phase_log) :
            /\ phase_log[i] = e
            /\ \A j \in 1..(i - 1) : phase_log[j] /= e
    ELSE 0

Happened(e) == Idx(e) > 0

\* for each input message, whether it contains a trip-planning keyword
KeywordInMessage ==
    [m \in Messages |-> \E k \in keywords : Contains(Lower(m), k)]

\* the message of the current request contains a trip-planning keyword
HasKeyword == user_message \in Messages /\ KeywordInMessage[user_message]

\* the profile the Profiling call returned, once it has returned
ReturnedProfile == current_context.profile[1]

\* the gate condition on the request's message and the returned profile
GateTrue == HasKeyword \/ Truthy(ReturnedProfile.destination)

\* no research provider, no synthesis and no enqueue in this request
NoResearch ==
    /\ ~Happened("research_start")
    /\ ~Happened("synthesis_call")
    /\ ~Happened("enqueue")
    /\ \A p \in Providers : gather_results[p] = NotStarted
    /\ synthesis_context = <<>>

\* C1: within one request Profiling returns before any research provider is
\* started, every provider has finished before the Synthesis call starts,
\* and Synthesis returns before the media task is enqueued.
C1_PhaseOrder ==
    /\ (\E p \in Providers : gather_results[p] /= NotStarted)
          => Happened("profiling_return")
    /\ Happened("research_start")
          => /\ Happened("profiling_return")
             /\ Idx("profiling_return") < Idx("research_start")
    /\ Happened("synthesis_call")
          => /\ Happened("research_start")
             /\ Idx("research_start") < Idx("research_done")
             /\ Idx("research_done") < Idx("synthesis_call")
    /\ pc = "synthesizing" => \A p \in Providers : IsDone(gather_results[p])
    /\ Happened("enqueue")
          => /\ Happened("synthesis_call")
             /\ Idx("synthesis_call") < Idx("synthesis_return")
             /\ Idx("synthesis_return") < Idx("enqueue")
    /\ (response /= <<>> /\ response[1].creative /= <<>>) => Happened("enqueue")

\* a request has gone through every phase up to the enqueue
C1_Witness == pc = "raised" /\ Happened("enqueue") /\ Happened("research_done")

\* the message of an early return, as the code composes it
AmendedEarlyMessage ==
    LET follow_ups == profile_result[1].follow_up_questions
        changes == profile_result[1].extracted_preferences
    IN IF follow_ups /= <<>> THEN Join(follow_ups)
       ELSE IF changes /= <<>> THEN <<Head(changes)>>
       ELSE <<"Tell me more about your trip!">>

\* C2 as stated: when the gate condition is false nothing is researched,
\* synthesised or enqueued and the answer is agent 'profiler' with the
\* Profiling step's follow-up questions.
C2_Original ==
    (Happened("profiling_return") /\ ~GateTrue)
       => /\ pc = "responded"
          /\ NoResearch
          /\ response[1].agent = "profiler"
          /\ response[1].creative = <<>>
          /\ response[1].message = Join(profile_result[1].follow_up_questions)

\* C2 (amended): when the gate condition is false nothing is researched,
\* synthesised or enqueued and the answer is agent 'profiler' whose message
\* is the follow-up questions joined by newlines when there are any,
\* otherwise the first extracted preference, otherwise a default prompt.
C2_EarlyReturn ==
    (Happened("profiling_return") /\ ~GateTrue)
       => /\ pc = "responded"
          /\ NoResearch
          /\ response[1].agent = "profiler"
          /\ response[1].creative = <<>>
          /\ response[1].data = <<>>
          /\ response[1].message = AmendedEarlyMessage

C2_Witness ==
    /\ pc = "responded"
    /\ Happened("profiling_return")
    /\ ~GateTrue
    /\ profile_result[1].follow_up_questions = <<>>
    /\ response[1].message = <<"c1">>

\* the key of synthesis_context that holds a provider's list
ContextKey(p) ==
    CASE p = "pathfinder" -> "destinations"
      [] p = "trend_spotter" -> "trends"
      [] p = "concierge" -> "accommodations"

\* the result list inside the dictionary a provider returned
OwnList(p, data) == IF p = "trend_spotter" THEN data.trends ELSE data.results

\* C3: whatever subset of the research providers raises, run_workflow does
\* not raise because of it (an exception leaves run_workflow only out of the
\* profiler call, the optimizer call or the construction of the response),
\* and the synthesis context holds an empty list for every provider that
\* raised and the provider's own list otherwise.
C3_FailureIsolation ==
    /\ pc = "synthesizing" =>
          \A p \in Providers :
              synthesis_context[1][ContextKey(p)] =
                  IF IsException(gather_results[p]) THEN <<>>
                  ELSE OwnList(p, gather_results[p])
    /\ pc = "raised" =>
          /\ Len(phase_log) >= 2
          /\ phase_log[Len(phase_log) - 1] \in
                 {"profiling_call", "synthesis_call", "enqueue"}

C3_Witness ==
    /\ pc = "synthesizing"
    /\ IsException(gather_results["trend_spotter"])
    /\ ~IsException(gather_results["pathfinder"])
    /\ synthesis_context[1].trends = <<>>
    /\ synthesis_context[1].destinations = <<"dest1">>

\* C4: when the gate is true all three providers are started, a provider
\* that fails early leaves the others running, and synthesis never starts
\* while a provider call is still running.
C4_FanOutFanIn ==
    [][ /\ (Happened("profiling_return") /\ GateTrue)'
            => Happened("research_start")'
        /\ (pc = "researching")'
            => \A p \in Providers : gather_results'[p] /= NotStarted
        /\ (pc = "researching" /\ pc' = "researching")
            => \A p \in Providers :
                  \/ gather_results'[p] = gather_results[p]
                  \/ gather_results[p] = Running /\ IsDone(gather_results'[p])
        /\ (pc = "researching" /\ pc' /= "researching")
            => /\ pc' = "synthesizing"
               /\ \A p \in Providers : IsDone(gather_results[p])
               /\ gather_results' = gather_results
      ]_vars

C4_Witness ==
    /\ pc = "researching"
    /\ IsException(gather_results["pathfinder"])
    /\ gather_results["trend_spotter"] = Running
    /\ gather_results["concierge"] = Running

\* C5: after synthesis run_workflow takes a fresh task id, registers the
\* media work under exactly that id without running any of it, and returns
\* the plan with the placeholder {generating, that id, null URLs}; later
\* steps of the background work leave the response as it is.
C5_NonBlockingEnqueue ==
    [][ /\ (pc = "synthesizing" /\ next_uuid' /= next_uuid)
            => /\ bg_pc[next_uuid] = "none"
               /\ bg_pc' = [bg_pc EXCEPT ![next_uuid] = "scheduled"]
               /\ next_uuid' = next_uuid + 1
               /\ store' = store
               /\ work_log' = work_log
               /\ setex_log' = setex_log
               /\ pc' = "responded"
               /\ response'[1].agent = "optimizer"
               /\ \E plan \in Plans : response'[1].data = << [itinerary |-> plan] >>
               /\ response'[1].creative =
                     << [poster_url |-> None, video_url |-> None,
                         status |-> "generating", task_id |-> next_uuid] >>
        /\ (pc = "responded" /\ pc' = "responded") => response' = response
      ]_vars

\* ------------------------------------------------------------------------
\* Properties of the background task system
\* ------------------------------------------------------------------------
Terminal == {"completed", "failed"}

\* the record written for the k-th outcome of the media work
RecordOf(outcome) ==
    IF "error" \in DOMAIN outcome
    THEN [status |-> "failed", result |-> outcome]
    ELSE [status |-> "completed", result |-> outcome]

\* C6 as stated: right after enqueue, before the background work has made
\* any progress, the status lookup finds a record that is pending or
\* generating (never completed, never absent).
C6_PendingAtEnqueue ==
    \A t \in TaskIds :
        (bg_pc[t] = "scheduled" /\ retries[t] = 0 /\ setex_log[t] = <<>>)
            => /\ get_task_status(t) /= <<>>
               /\ get_task_status(t)[1].status \in {"pending", "generating"}
               /\ get_media_status(t).status \in {"pending", "generating"}

\* C7: in both executors every execution writes generating before the media
\* work starts; the write that follows a returning work is completed with
\* its result, the write that follows a raising work is failed with the
\* error; only the four statuses are ever written.
C7_WriteOrder ==
    \A t \in TaskIds :
        LET L == setex_log[t]
            W == work_log[t]
        IN /\ \A i \in 1..Len(L) : L[i].status \in Statuses
           /\ \A i \in 1..Len(L) :
                 IF i % 2 = 1
                 THEN L[i] = [status |-> "generating", result |-> <<>>]
                 ELSE /\ i \div 2 <= Len(W)
                      /\ L[i] = RecordOf(W[i \div 2])
           \* the k-th work is started only after the k-th generating write
           /\ \A k \in 1..Len(W) : 2 * k - 1 <= Len(L)
           /\ bg_pc[t] = "work"
                 => /\ Len(L) = 2 * Len(W) + 1
                    /\ L[Len(L)].status = "generating"
           /\ bg_pc[t] \in {"save_completed", "save_failed"}
                 => Len(L) = 2 * Len(W) - 1

C7_Witness ==
    \E t \in TaskIds :
        /\ ~USE_CELERY
        /\ bg_pc[t] = "done"
        /\ Len(setex_log[t]) = 2
        /\ setex_log[t][1].status = "generating"
        /\ setex_log[t][2].status = "completed"
        /\ setex_log[t][2].result = work_log[t][1]

\* C8 as stated: in both executors, once the stored record of a task id is
\* completed or failed no later write changes it; it can only expire.
C8_TerminalImmutable ==
    [][ \A t \in TaskIds :
          (t \in DOMAIN store /\ store[t].status \in Terminal)
             => (t \notin DOMAIN store' \/ store'[t] = store[t])
      ]_vars

\* C9: after the media work has returned, the status lookup eventually
\* returns completed with the work's result, and from then on it returns
\* that same record until the record expires.
C9_CompletedStays ==
    /\ \A t \in TaskIds :
          (bg_pc[t] = "save_completed")
             ~> /\ get_task_status(t) /= <<>>
                /\ get_task_status(t)[1].status = "completed"
                /\ get_task_status(t)[1].result = bg_local[t]
                /\ get_task_status(t)[1].result /= <<>>
    /\ [][ \A t \in TaskIds :
             (get_task_status(t) /= <<>> /\ get_task_status(t)[1].status = "completed")
                => \/ get_task_status(t)' = get_task_status(t)
                   \/ get_task_status(t)' = <<>> /\ setex_log' = setex_log
         ]_vars

C9_Witness ==
    \E t \in TaskIds :
        /\ bg_pc[t] = "done"
        /\ get_task_status(t) /= <<>>
        /\ get_task_status(t)[1] = [status |-> "completed", result |-> work_log[t][1]]

\* C10 as stated, in the form a finite run decides: when the execution of
\* an enqueued task has ended, a record was written for it and the last
\* record written is completed or failed.
C10_ReachesTerminal ==
    \A t \in TaskIds :
        bg_pc[t] \in {"done", "crashed"}
            => /\ setex_log[t] /= <<>>
               /\ setex_log[t][Len(setex_log[t])].status \in Terminal

\* ------------------------------------------------------------------------
\* Properties of the status lookup
\* ------------------------------------------------------------------------
\* the step is a status lookup
IsPoll == last_poll' /= last_poll

\* the latest lookup found a completed record of task t
PolledCompleted(t) ==
    /\ last_poll /= NoPoll
    /\ last_poll.task_id = t
    /\ last_poll.data /= <<>>
    /\ ~IsException(last_poll.data[1])
    /\ last_poll.data[1].status = "completed"

\* C11: a status lookup leaves every stored record and every key's time
\* to live as they were, and a lookup that follows a lookup which found the
\* task completed returns the identical record while the key is stored.
C11_LookupReadOnly ==
    [][ IsPoll =>
          /\ store' = store
          /\ ttl' = ttl
          /\ setex_log' = setex_log
          /\ \A t \in TaskIds :
                (PolledCompleted(t) /\ t \in DOMAIN store /\ last_poll'.task_id = t)
                   => last_poll'.data = last_poll.data
      ]_vars

C11_Witness ==
    /\ PolledCompleted(1)
    /\ last_poll.seq = 0
    /\ ttl[1] = task_ttl - 1
    /\ store[1] = last_poll.data[1]

\* a record as a reader may see it: the status with the payload of that status
WholeRecord(t, rec) ==
    /\ DOMAIN rec = {"status", "result"}
    /\ rec.status \in {"generating", "completed", "failed"}
    /\ rec.status = "generating" => rec.result = <<>>
    /\ rec.status = "completed" =>
          /\ work_log[t] /= <<>>
          /\ rec.result = work_log[t][Len(work_log[t])]
          /\ "error" \notin DOMAIN rec.result
          /\ rec.result /= <<>>
    /\ rec.status = "failed" =>
          /\ "error" \in DOMAIN rec.result
          /\ \E k \in 1..Len(work_log[t]) : rec.result = work_log[t][k]

\* C12: every record a status lookup returns, at whatever point of the
\* execution the lookup falls, is one whole written record: generating with
\* an empty result, completed with the work's result, or failed with an
\* error entry; the stored records are of the same three shapes.
C12_AtomicReplace ==
    /\ (last_poll /= NoPoll /\ last_poll.data /= <<>>
           /\ ~IsException(last_poll.data[1]))
          => WholeRecord(last_poll.task_id, last_poll.data[1])
    /\ \A t \in DOMAIN store : WholeRecord(t, store[t])

C12_Witness ==
    /\ last_poll /= NoPoll
    /\ last_poll.task_id = 1
    /\ last_poll.data = <<[status |-> "generating", result |-> <<>>]>>
    /\ 1 \in DOMAIN store
    /\ store[1].status = "completed"
    /\ store[1].result = work_log[1][1]

\* the media work of task t has returned a result
WorkSucceeded(t) == bg_local[t] /= NoLocal /\ "error" \notin DOMAIN bg_local[t]

\* C13: the database update that follows the completed write ends the
\* execution whether or not a row references the task id and whether or
\* not the database raises: it writes no record, and the stored record
\* stays completed with the work's result for as long as it is stored.
C13_BestEffortUpdate ==
    /\ [][ \A t \in TaskIds :
             (bg_pc[t] = "db_update" /\ bg_pc'[t] /= "db_update")
                => /\ bg_pc'[t] = "done"
                   /\ store' = store
                   /\ setex_log' = setex_log
                   /\ \A i \in 1..Len(itineraries) :
                         \/ itineraries'[i] = itineraries[i]
                         \/ /\ i \in SavedFor(t)
                            /\ itineraries'[i] = UpdatedRow(itineraries[i], bg_local[t])
         ]_vars
    /\ [](\A t \in TaskIds :
             (bg_pc[t] \in {"db_update", "done"} /\ WorkSucceeded(t)
                 /\ get_task_status(t) /= <<>>)
                => /\ get_task_status(t)[1] = [status |-> "completed",
                                                 result |-> bg_local[t]]
                   /\ setex_log[t][Len(setex_log[t])].status = "completed")

\* the update of a task whose row was saved before it has ended: the
\* lookup raised, the row is as it was saved and the record is completed
C13_Witness ==
    /\ bg_pc[1] = "done"
    /\ Len(itineraries) = 1
    /\ SavedFor(1) = {1}
    /\ "media_status" \notin DOMAIN itineraries[1]
    /\ get_task_status(1) = <<[status |-> "completed", result |-> bg_local[1]]>>

\* the last outcome of the media work of task t is an exception
LastWorkFailed(t) ==
    /\ work_log[t] /= <<>>
    /\ "error" \in DOMAIN work_log[t][Len(work_log[t])]

\* C14 as stated: in the asyncio executor an execution that has ended has
\* invoked the media work exactly once and a failure leaves the record
\* failed; in the Celery executor the work is invoked at most 1 + 3 times
\* and after the last failed attempt the record is failed.
C14_RetryPolicy ==
    \A t \in TaskIds :
        /\ ~USE_CELERY =>
              /\ Len(work_log[t]) <= 1
              /\ bg_pc[t] \in {"done", "crashed"} => Len(work_log[t]) = 1
              /\ (bg_pc[t] = "done" /\ LastWorkFailed(t))
                    => setex_log[t][Len(setex_log[t])] = RecordOf(work_log[t][1])
        /\ USE_CELERY =>
              /\ Len(work_log[t]) <= 1 + max_retries
              /\ (bg_pc[t] = "done" /\ LastWorkFailed(t))
                    => /\ Len(work_log[t]) = 1 + max_retries
                       /\ setex_log[t][Len(setex_log[t])].status = "failed"

\* ------------------------------------------------------------------------
\* Properties of the broadening loop
\* ------------------------------------------------------------------------
EmptyItems == [items |-> <<>>]

\* async_process has returned or raised
TrendEnded == ts_pc \in {"returned", "raised"}

\* the calls of the model made for a broader query, in order
BroadenCalls == SelectSeq(llm_log, LAMBDA e : e.purpose = "broaden")

\* the calls of the model made for a synthesis, in order
SynthCalls == SelectSeq(llm_log, LAMBDA e : e.purpose = "synth")

\* both providers returned an empty list on the k-th fetch
BothEmpty(k) == fetch_log[k].hashtags = EmptyItems /\ fetch_log[k].posts = EmptyItems

\* both providers returned an empty list on every fetch made so far
AlwaysEmpty == \A k \in 1..Len(fetch_log) : BothEmpty(k)

\* C15 as stated: with providers that always return empty, the invocation
\* ends by returning after exactly three fetches, having asked the model
\* for a broader query exactly twice, after attempts 1 and 2, and returns
\* an empty trend list with status partial_success.
C15_AlwaysEmpty ==
    (TrendEnded /\ AlwaysEmpty)
       => /\ ts_pc = "returned"
          /\ Len(fetch_log) = max_retries_trend
          /\ Len(BroadenCalls) = 2
          /\ BroadenCalls[1].attempt = 1
          /\ BroadenCalls[2].attempt = 2
          /\ ts_result[1].trends = <<>>
          /\ ts_result[1].status = "partial_success"

\* both providers returned a non-empty list on the k-th fetch
BothFull(k) ==
    /\ "items" \in DOMAIN fetch_log[k].hashtags /\ fetch_log[k].hashtags.items /= <<>>
    /\ "items" \in DOMAIN fetch_log[k].posts /\ fetch_log[k].posts.items /= <<>>

\* C16 as stated: with providers that return empty on attempt 1 and data on
\* attempt 2, the invocation returns after exactly two fetches and exactly
\* one broadening call, with the broadened query of attempt 1 as
\* searched_location, the trends synthesised on attempt 2 and status success.
C16_SecondAttempt ==
    (TrendEnded /\ fetch_log /= <<>> /\ BothEmpty(1)
        /\ (Len(fetch_log) >= 2 => BothFull(2)))
       => /\ ts_pc = "returned"
          /\ Len(fetch_log) = 2
          /\ Len(BroadenCalls) = 1
          /\ BroadenCalls[1].attempt = 1
          /\ fetch_log[2].query = BroadenCalls[1].result
          /\ ts_result[1].searched_location = BroadenCalls[1].result
          /\ Len(SynthCalls) = 1
          /\ ts_result[1].trends = SynthCalls[1].result
          /\ ts_result[1].trends /= <<>>
          /\ ts_result[1].status = "success"

\* C17: when the synthesis of the first attempt gives trends, the invocation
\* returns at once: one fetch, one call of the model, no broadening call,
\* status success, the synthesised trends, and searched_location equal to
\* the location the invocation started with.
C17_ImmediateSuccess ==
    (SynthCalls /= <<>> /\ SynthCalls[1].attempt = 1 /\ SynthCalls[1].result /= <<>>)
       => /\ ts_pc = "returned"
          /\ Len(fetch_log) = 1
          /\ fetch_log[1].posts.items /= <<>>
          /\ Len(llm_log) = 1
          /\ BroadenCalls = <<>>
          /\ ts_result[1].status = "success"
          /\ ts_result[1].trends = SynthCalls[1].result
          /\ ts_result[1].searched_location = original_location
          /\ ts_result[1].searched_location = fetch_log[1].query
          /\ original_location \in {<<"Global">>, <<"SoHo">>}

C17_Witness ==
    /\ ts_pc = "returned"
    /\ Len(fetch_log) = 1
    /\ llm_log = << [purpose |-> "synth", attempt |-> 1, raised |-> FALSE,
                     result |-> <<"t1">>] >>
    /\ ts_result[1].searched_location = <<"SoHo">>
    /\ ts_result[1].status = "success"

\* C18 as stated: whatever the providers and the model do, async_process
\* ends by returning a result dictionary, never by raising.
C18_NeverRaises ==
    /\ ts_pc /= "raised"
    /\ TrendEnded => ts_result /= <<>>

\* C19 as stated: an invocation that used all its attempts without finding
\* trends returns the location it started with as searched_location, an
\* empty trend list and status partial_success.
C19_ExhaustedReturnsOriginal ==
    (ts_pc = "returned" /\ ts_result[1].trends = <<>>)
       => /\ Len(fetch_log) = max_retries_trend
          /\ ts_result[1].status = "partial_success"
          /\ ts_result[1].searched_location = original_location

\* at least one provider returned a non-empty list on the k-th fetch
SomeData(k) ==
    \/ "items" \in DOMAIN fetch_log[k].hashtags /\ fetch_log[k].hashtags.items /= <<>>
    \/ "items" \in DOMAIN fetch_log[k].posts /\ fetch_log[k].posts.items /= <<>>

\* the k-th attempt went on to the synthesis call
WentToSynthesis(k) ==
    \/ attempt = k /\ ts_pc = "synth"
    \/ \E i \in 1..Len(llm_log) : llm_log[i].purpose = "synth" /\ llm_log[i].attempt = k

\* C20 as stated: every attempt fetches with the current query, goes on to
\* synthesis when at least one provider returned data, and asks for a
\* broader query (or gives up) only when both came back empty.
C20_BroadenOnlyIfBothEmpty ==
    \A k \in 1..Len(fetch_log) :
        /\ fetch_log[k].attempt = k
        /\ SomeData(k) <=> WentToSynthesis(k)

\* the i-th call of the model was a synthesis that returned no trends
EmptySynthesis(i) ==
    /\ llm_log[i].purpose = "synth"
    /\ ~llm_log[i].raised
    /\ llm_log[i].result = <<>>

\* a broader query was obtained on attempt k and the next fetch used it
RetriedBroader(k) ==
    /\ Len(fetch_log) >= k + 1
    /\ \E j \in 1..Len(llm_log) :
          /\ llm_log[j].purpose = "broaden"
          /\ llm_log[j].attempt = k
          /\ ~llm_log[j].raised
          /\ fetch_log[k + 1].query = llm_log[j].result

\* C21 as stated: when the synthesis of an attempt returns no trends, the
\* invocation does not return on that attempt unless it is the last; before
\* the last attempt it obtains a broader query and fetches again with it,
\* and on the last attempt it returns without a broadening call.
C21_EmptySynthesisBroadens ==
    \A i \in 1..Len(llm_log) :
        EmptySynthesis(i) =>
            LET k == llm_log[i].attempt
            IN IF k < max_retries_trend
               THEN /\ ts_pc = "returned" => Len(fetch_log) > k
                    /\ TrendEnded => RetriedBroader(k)
               ELSE /\ ts_pc = "returned"
                    /\ \A j \in 1..Len(llm_log) :
                          llm_log[j].purpose = "broaden" => llm_log[j].attempt /= k

\* C22: every result async_process returns has status success exactly when
\* its trend list is non-empty and partial_success exactly when it is empty;
\* an invocation that used all its attempts is reported as partial_success.
C22_StatusMatchesTrends ==
    ts_result /= <<>> =>
        /\ ts_pc = "returned"
        /\ ts_result[1].status \in {"success", "partial_success"}
        /\ ts_result[1].status = "success" <=> ts_result[1].trends /= <<>>
        /\ ts_result[1].status = "partial_success" <=> ts_result[1].trends = <<>>

C22_Witness ==
    /\ ts_pc = "returned"
    /\ Len(fetch_log) = max_retries_trend
    /\ ts_result[1].trends = <<>>
    /\ ts_result[1].status = "partial_success"

\* ------------------------------------------------------------------------
\* Properties of the profiler
\* ------------------------------------------------------------------------
Punctuation == {"!", "?", ".", ","}

RECURSIVE StripTrailingPunctuation(_)
StripTrailingPunctuation(s) ==
    IF s /= <<>> /\ s[Len(s)] \in Punctuation
    THEN StripTrailingPunctuation(SubSeq(s, 1, Len(s) - 1))
    ELSE s

GreetingTokens == { <<"h", "i">>, <<"h", "e", "l", "l", "o">>, <<"h", "e", "y">> }

\* the input, trimmed, case-folded and without trailing punctuation, is a
\* greeting
GreetingLike(query) == StripTrailingPunctuation(Lower(Strip(query))) \in GreetingTokens

\* caller c has made a call with a greeting
Greeted(c) == prof_call[c] /= <<>> /\ GreetingLike(prof_call[c][1].query)

\* C23 as stated: a call whose input is a greeting asks the model nothing,
\* returns at once with status greeted, an empty extraction summary and
\* one follow-up question, and leaves the profile as it was, returning it.
C23_GreetingFastPath ==
    /\ [](\A c \in Callers :
            Greeted(c) =>
               /\ ~prof_call[c][1].asked
               /\ prof_pc[c] = "returned"
               /\ prof_result[c][1].status = "greeted"
               /\ prof_result[c][1].extracted_preferences = <<>>
               /\ Len(prof_result[c][1].follow_up_questions) = 1)
    /\ [][\A c \in Callers :
            (Greeted(c)' /\ prof_pc[c] /= "returned" /\ prof_pc'[c] = "returned")
               => /\ current_profile' = current_profile
                  /\ prof_result'[c][1].profile = current_profile]_vars

\* the profile fields of the answer the model gave to caller c
DeltaOf(c) == prof_call[c][1].new_profile_data

\* new is old merged with delta as the merge rule says
MergeRule(old, delta, new) ==
    /\ DOMAIN new = DOMAIN old
    /\ \A k \in DOMAIN old :
          /\ k \notin DOMAIN delta => new[k] = old[k]
          /\ (k \in DOMAIN delta /\ IsList(old[k]) /\ IsList(delta[k])) =>
                /\ IsList(new[k])
                /\ Elems(new[k].list) = Elems(old[k].list) \cup Elems(delta[k].list)
                /\ Len(new[k].list) = Cardinality(Elems(new[k].list))
          /\ (k \in DOMAIN delta /\ ~IsList(old[k])) => new[k] = delta[k]

\* C24: whenever a call updates the profile from the fields the model
\* extracted, every list field given as a list holds the union of its old
\* and the extracted elements, each once; every scalar field given holds
\* the extracted value; every field not given is unchanged; and the call
\* returns the profile so merged.
C24_ProfileMerge ==
    [][\A c \in Callers :
          (prof_pc[c] = "awaiting" /\ prof_pc'[c] = "returned"
              /\ prof_result'[c][1].status = "profile_updated")
             => /\ MergeRule(current_profile, DeltaOf(c)', current_profile')
                /\ prof_result'[c][1].profile = current_profile']_vars

C24_Witness ==
    /\ prof_pc = [c \in Callers |-> "returned"]
    /\ prof_result["a"][1].status = "profile_updated"
    /\ prof_result["a"][1].profile.allergies = List(<<"peanut">>)
    /\ prof_result["a"][1].profile.budget_level = Scalar("moderate")
    /\ prof_result["b"][1].status = "profile_updated"
    /\ IsList(prof_result["b"][1].profile.allergies)
    /\ Elems(prof_result["b"][1].profile.allergies.list) = {"egg", "peanut"}
    /\ prof_result["b"][1].profile.budget_level = Scalar("luxury")

\* the model answered caller c, and the answer is not the text of a JSON
\* object
Unparsable(c) ==
    /\ prof_call[c] /= <<>>
    /\ prof_call[c][1].answer /= NotCalled
    /\ ~IsException(prof_call[c][1].answer)
    /\ IsException(ParseProfile(prof_call[c][1].answer))

\* C25 as stated: a call whose model answer cannot be parsed into a
\* structured result returns, with status error_parsing_llm, an empty
\* extraction summary, the generic follow-up question and the profile the
\* agent holds; it does not raise.
C25_ParseFailureReturns ==
    \A c \in Callers :
        Unparsable(c) =>
            /\ prof_pc[c] = "returned"
            /\ prof_result[c][1].status = "error_parsing_llm"
            /\ prof_result[c][1].extracted_preferences = <<>>
            /\ Len(prof_result[c][1].follow_up_questions) = 1

\* C26 as stated: every field value in the profile a call returns to a
\* caller is a default of a fresh profile or was supplied by that caller's
\* own calls (its prior profiles and what the model extracted from its
\* messages); nothing another caller supplied appears in it.
C26_NoSharedState ==
    \A c \in Callers :
        (prof_pc[c] = "returned" /\ prof_result[c] /= <<>>)
           => Mentions(prof_result[c][1].profile) \subseteq
                 (Mentions(TravelerProfile) \cup own[c])

\* ------------------------------------------------------------------------
\* chat_endpoint: failures of the pipeline's steps
\* ------------------------------------------------------------------------
\* the endpoint answered the current request with an HTTP error
AnsweredWithError ==
    /\ chat_pc = "done"
    /\ http /= <<>>
    /\ "status_code" \in DOMAIN http[1]

\* the Profiling call of the current request raised
ProfilingRaised == phase_log = <<"profiling_call", "raise">>

\* C27 as stated: a request served by the pipeline is answered with an error
\* only when its Profiling call raised; an exception of the Synthesis step
\* or of a research provider still ends in a response.
C27_OnlyProfilingAborts ==
    (AnsweredWithError /\ route.served_by = "pipeline") => ProfilingRaised

\* C28: when the Profiling call of a request raises, no research provider
\* was started, Synthesis was not called and nothing was enqueued for that
\* request, and the caller gets HTTP 500 with the fixed detail, which is not
\* the text of the exception; the raising step leaves the task store and
\* the database as they were.
C28_ProfilingAborts ==
    /\ []((chat_pc = "done" /\ route.served_by = "pipeline" /\ ProfilingRaised) =>
            /\ NoResearch
            /\ http = << [status_code |-> 500, detail |-> FixedDetail] >>
            /\ http[1].detail /= logged)
    /\ [][(pc = "profiling" /\ pc' = "raised") =>
            UNCHANGED <<taskVars, dbVars, next_uuid>>]_vars

C28_Witness ==
    /\ chat_pc = "done"
    /\ route.served_by = "pipeline"
    /\ ProfilingRaised
    /\ logged \in ChatErrors
    /\ http /= <<>>
    /\ http[1].status_code = 500

\* ------------------------------------------------------------------------
\* chat_endpoint: the itinerary cache
\* ------------------------------------------------------------------------
\* how lines 603-627 serve a request of a user, given the user's cache entry
\* (<<>> for none) and the saved rows of this state
ServedBy(entry, user, preferences) ==
    CASE FirstCheck(entry, user, preferences) \in {"cache", "context"} -> "chatbot"
      [] FirstCheck(entry, user, preferences) = "db_check" ->
            IF HasSavedItinerary(user) THEN "chatbot" ELSE "pipeline"
      [] FirstCheck(entry, user, preferences) = "pipeline" -> "pipeline"

NextDay(date) ==
    LET last == IF date.m \in {4, 6, 9, 11} THEN 30
                ELSE IF date.m /= 2 THEN 31
                ELSE IF date.y % 400 = 0 \/ (date.y % 4 = 0 /\ date.y % 100 /= 0) THEN 29
                ELSE 28
    IN  IF date.d < last THEN [date EXCEPT !.d = date.d + 1]
        ELSE IF date.m < 12 THEN [date EXCEPT !.m = date.m + 1, !.d = 1]
        ELSE [date EXCEPT !.y = date.y + 1, !.m = 1, !.d = 1]

\* the day plans of the itinerary the caller has handed on
ReturnedDays == opt_data[1].itinerary.itinerary

\* the start date process resolved
ResolvedStart == opt_locals[1].start_date

\* the day plans from the i-th on are dated date, the day after, and so on
RECURSIVE DatedFrom(_, _, _)
DatedFrom(days, i, date) ==
    \/ i > Len(days)
    \/ /\ days[i].date = Strftime(date)
       /\ DatedFrom(days, i + 1, NextDay(date))

\* the dates of the optimizer's own day plans, as its caller in the chatbot
\* hands them on: as many as the optimizer produced, numbered 1..N, dated
\* from the resolved start date by consecutive calendar days
OptimizerDatesSequential ==
    opt_pc = "delivered" =>
        /\ Len(ReturnedDays) = Len(opt_plan[1].itinerary)
        /\ \A i \in 1..Len(ReturnedDays) : ReturnedDays[i].day_number = i
        /\ DatedFrom(ReturnedDays, 1, ResolvedStart)

\* an itinerary that crosses the end of February of a leap year has been
\* handed on
OptimizerDatesCrossMonth ==
    /\ opt_pc = "delivered"
    /\ Len(ReturnedDays) >= 4
    /\ ResolvedStart = Date(2024, 2, 27)
    /\ ReturnedDays[3].date = <<"2", "0", "2", "4", "-", "0", "2", "-", "2", "9">>
    /\ ReturnedDays[4].date = <<"2", "0", "2", "4", "-", "0", "3", "-", "0", "1">>

\* the start date of a run_workflow invocation: its synthesis context
\* carries no dates (main.py, lines 301-311), which resolves to the day
\* after now
WorkflowStartDate == _extract_start_date([start |-> <<>>, end |-> <<>>], PlanClock)

\* C29 as stated: when the Synthesis step of run_workflow has returned its
\* day plans, run_workflow returns an itinerary whose days are numbered in
\* order and dated with the resolved start date, the day after it, and so
\* on, one calendar day apart.
C29_ReturnedDatesSequential ==
    [][(pc = "synthesizing" /\ next_uuid' /= next_uuid) =>
          /\ pc' = "responded"
          /\ response' /= <<>>
          /\ LET days == response'[1].data[1].itinerary.itinerary
             IN  /\ days /= <<>>
                 /\ \A i \in 1..Len(days) : days[i].day_number = i
                 /\ DatedFrom(days, 1, WorkflowStartDate)]_vars

\* ------------------------------------------------------------------------
\* Status lookup of a task id without a record
\* ------------------------------------------------------------------------
\* this step is a lookup of t that finds no record under task:t
LooksUpMissing(t) ==
    /\ last_poll' /= last_poll
    /\ last_poll'.task_id = t
    /\ t \notin DOMAIN store

\* C31 as stated: a lookup of a task id that has no record returns None, so
\* that the media-status endpoint answers not_found; it does not raise and
\* it leaves the store without a record for that id.
C31_MissingIsNotFound ==
    [][\A t \in TaskIds :
          LooksUpMissing(t) =>
              /\ last_poll'.data = <<>>
              /\ get_media_status(t)' = [status |-> "not_found"]
              /\ store' = store]_vars

\* ------------------------------------------------------------------------
\* chat_endpoint: hybrid routing
\* ------------------------------------------------------------------------
\* this step receives a chat request of user u
Receives(u) ==
    /\ chat_no' = chat_no + 1
    /\ chat_req'.user = u

\* the last request was one of user u that the pipeline served up to and
\* including the enqueue of the media task, and it has ended
FullPipelineRan(u) ==
    /\ chat_pc = "done"
    /\ chat_req /= <<>>
    /\ chat_req.user = u
    /\ route.served_by = "pipeline"
    /\ \E i \in 1..Len(phase_log) : phase_log[i] = "enqueue"

RecordCompleted(t) ==
    /\ get_task_status(t) /= <<>>
    /\ get_task_status(t)[1].status = "completed"

\* every row saved for t carries the media of the task's result
RowsCompleted(t) ==
    \A i \in SavedFor(t) :
        /\ "media_status" \in DOMAIN itineraries[i]
        /\ itineraries[i].media_status = "completed"
        /\ itineraries[i] = UpdatedRow(itineraries[i], bg_local[t])

\* C33 as stated: whenever the record of task t is completed and a row
\* saved with media_task_id t exists, that row eventually has media_status
\* completed with the poster and video of the task's result.
C33_RowEventuallyCompleted ==
    \A t \in TaskIds :
        (RecordCompleted(t) /\ SavedFor(t) /= {}) ~> RowsCompleted(t)

\* ------------------------------------------------------------------------
\* TrendSpotterAgent: the external calls of one async_process call
\* ------------------------------------------------------------------------
\* the number of generate_response calls made for a purpose
CallsFor(purpose) ==
    Cardinality({ i \in 1..Len(llm_log) : llm_log[i].purpose = purpose })

\* C34: one async_process call fetches the social data at most 3 times,
\* asks the model for a synthesis at most 3 times and for a broader query
\* at most 2 times, and its attempt counter never exceeds 3.
C34_CallBudget ==
    /\ Len(fetch_log) <= 3
    /\ CallsFor("synth") <= 3
    /\ CallsFor("broaden") <= 2
    /\ attempt <= 3

\* a call that used its whole budget has returned
C34_Witness ==
    /\ ts_pc = "returned"
    /\ Len(fetch_log) = 3
    /\ CallsFor("synth") = 3
    /\ CallsFor("broaden") = 2
    /\ attempt = 3

\* ------------------------------------------------------------------------
\* generate_response: invocations, retries and termination
\* ------------------------------------------------------------------------
\* the answer to invocation i of the current call was a rate-limit error
RateLimitedAnswer(i) ==
    /\ gen_api[i] /= NoText
    /\ "error" \in DOMAIN gen_api[i]
    /\ RateLimited(gen_api[i].error)

\* C35: a generate_response call invokes the model at most 4 times; every
\* invocation but the first follows a rate-limit answer; the call raises
\* only when four invocations in a row were rate-limited; an answer with
\* any other error makes it return the empty string with no further
\* invocation; and every call that entered the loop returns or raises.
C35_BoundedRetries ==
    /\ [](/\ Len(gen_api) <= 1 + max_retries_llm
          /\ \A i \in 1..(Len(gen_api) - 1) : RateLimitedAnswer(i)
          /\ gen_pc = "raised" =>
                /\ Len(gen_api) = 4
                /\ \A i \in 1..4 : RateLimitedAnswer(i)
          /\ (gen_api /= <<>> /\ gen_api[Len(gen_api)] /= NoText
                /\ "error" \in DOMAIN gen_api[Len(gen_api)]
                /\ ~RateLimitedAnswer(Len(gen_api))) =>
                (gen_pc = "returned" /\ gen_result = << [value |-> <<>>] >>))
    /\ (gen_pc = "invoke") ~> (gen_pc \in {"returned", "raised"})

\* a call has raised after four rate-limited invocations
C35_Witness ==
    /\ gen_pc = "raised"
    /\ Len(gen_api) = 4
    /\ gen_retries = 4
    /\ IsException(gen_result[1])

\* ------------------------------------------------------------------------
\* generate_video: the polling cap and what a timeout leads to
\* ------------------------------------------------------------------------
\* the last record the task wrote has the given status
LastWritten(t, status) ==
    /\ setex_log[t] /= <<>>
    /\ setex_log[t][Len(setex_log[t])].status = status

\* the current run of the task is past its media work
WorkEnded(t) == bg_pc[t] \in {"save_completed", "save_failed", "db_update", "done"}

\* the media work of the task has ended by raising
WorkFailed(t) ==
    /\ WorkEnded(t)
    /\ "error" \in DOMAIN work_log[t][Len(work_log[t])]

\* C36 as stated: when the polling loop timed out, the media work that has
\* ended has failed.
C36_TimeoutFailsWork ==
    \A t \in TaskIds :
        (video[t].timed_out /\ WorkEnded(t)) => WorkFailed(t)

\* C36: the polling loop is left at the first loop head at which the
\* operation is done or more than 300 seconds have passed since polling
\* began, and every loop that was entered is left; a timeout makes
\* generate_video return the empty string, the media work then returns a
\* result with an empty video_url instead of raising, and the last record
\* the task writes is "completed".
C36_PollingCapped ==
    /\ [][\A t \in TaskIds :
            (video[t].pc = "loop" /\ (video[t].done \/ video[t].elapsed > max_poll_seconds))
                => (video'[t] = video[t] \/ video'[t].pc /= "loop")]_vars
    /\ [](\A t \in TaskIds :
            /\ video[t].timed_out =>
                  /\ video[t].elapsed > max_poll_seconds
                  /\ video[t].url = ""
                  /\ ~video[t].done
            /\ (video[t].timed_out /\ WorkEnded(t)) =>
                  /\ ~WorkFailed(t)
                  /\ work_log[t][Len(work_log[t])].video_url = "")
    /\ \A t \in TaskIds : (video[t].pc = "loop") ~> (video[t].pc = "returned")
    /\ \A t \in TaskIds : video[t].timed_out ~> (LastWritten(t, "completed") /\ bg_pc[t] = "done")

\* a task whose polling timed out and whose trip poster failed as well has
\* written "completed" with neither a video nor a poster
C36_Witness ==
    \E t \in TaskIds :
        /\ video[t].timed_out
        /\ video[t].elapsed > max_poll_seconds + poll_sleep
        /\ LastWritten(t, "completed")
        /\ setex_log[t][Len(setex_log[t])].result.video_url = ""
        /\ setex_log[t][Len(setex_log[t])].result.trip_poster_url = ""

\* ------------------------------------------------------------------------
\* Frame of a background task
\* ------------------------------------------------------------------------
\* the step is one of task t's own: the task moves on, or is taken up again
StepOfTask(t) ==
    /\ bg_pc[t] /= "none"
    /\ bg_pc'[t] /= bg_pc[t] \/ retries'[t] /= retries[t]

\* C37: a step of the task for id t leaves the record, the time to live
\* and the write history of every other id as they are, adds and removes
\* no row, and changes no row that was saved with a media_task_id other
\* than t; every record it writes is written under t.
C37_TaskFrame ==
    [][\A t \in TaskIds :
         StepOfTask(t) =>
            /\ \A u \in TaskIds \ {t} :
                  /\ get_task_status(u)' = get_task_status(u)
                  /\ ttl'[u] = ttl[u]
                  /\ setex_log'[u] = setex_log[u]
                  /\ bg_pc'[u] = bg_pc[u]
                  /\ bg_local'[u] = bg_local[u]
            /\ DOMAIN store' \subseteq DOMAIN store \cup {t}
            /\ Len(itineraries') = Len(itineraries)
            /\ \A i \in 1..Len(itineraries) :
                  i \notin SavedFor(t) => itineraries'[i] = itineraries[i]
      ]_vars

\* two tasks have run side by side: the first has completed and gone
\* through its database update, the row was saved for the second, which
\* is still at work
C37_Witness ==
    \E t, u \in TaskIds :
        /\ t /= u
        /\ bg_pc[t] = "done" /\ RecordCompleted(t)
        /\ bg_pc[u] = "work"
        /\ get_task_status(u) /= <<>> /\ get_task_status(u)[1].status = "generating"
        /\ SavedFor(u) /= {}
        /\ \A i \in SavedFor(u) : itineraries[i].user_id = save_log[i].user_id

\* ------------------------------------------------------------------------
\* The destination the research providers work on
\* ------------------------------------------------------------------------
\* the place the answer of provider p says it worked on: query_params of
\* the pathfinder, destination of the trend spotter, location of the
\* concierge; <<>> stands for None
Researched(p) ==
    CASE p = "pathfinder"    -> gather_results[p].query_params.location
      [] p = "trend_spotter" -> gather_results[p].destination
      [] p = "concierge"     -> gather_results[p].location

\* C38: in one run_workflow invocation the destination is the profile's,
\* else the context's, else "Paris", and every research provider that has
\* answered has worked on exactly that destination.
C38_SameDestination ==
    pc \in {"researching", "synthesizing"} =>
        /\ destination = ResolveDestination(current_context.profile[1], current_context)
        /\ \A p \in Providers :
              (IsDone(gather_results[p]) /\ ~IsException(gather_results[p])) =>
                  Researched(p) = << Spelling(destination) >>

\* ------------------------------------------------------------------------
\* RequestQueue: rate limiting
\* ------------------------------------------------------------------------
\* the callers that went on at a time in the second that begins at `from`
AdmittedInWindow(from) ==
    { i \in 1..Len(admitted) : admitted[i] >= from /\ admitted[i] < from + TicksPerSecond }

\* C39: the deque never holds more than rate_limit timestamps; no second
\* contains more than rate_limit callers that went on after wait_turn
\* returned; and every wait_turn call returns.
C39_RateLimited ==
    /\ [](Len(requests) <= rate_limit)
    /\ [](\A i \in 1..Len(admitted) :
             Cardinality(AdmittedInWindow(admitted[i])) <= rate_limit)
    /\ \A c \in Callers : (rq_pc[c] /= "idle") ~> (rq_pc[c] = "idle")

====
